---------------------------- MODULE Spec2Model ----------------------------
(***************************************************************************)
(* Model of src/src/2DPowerLorentzianFitCeres.cc: the robust statistics,   *)
(* the three-tier parameter estimator, the MAD outlier filter, the 1-D fit *)
(* orchestrator FitPowerLorentzianCeres (dataset variants x solver         *)
(* configurations, two-stage solve, covariance fallbacks) and the locking  *)
(* of the public entry points.                                             *)
(*                                                                         *)
(* Numbers.  Charges and positions are integers.  A value the code holds   *)
(* in a double and that need not be an integer (a centre, a width, a MAD)  *)
(* is kept in fixed point, in units of 1/E4.  Comparisons that decide the  *)
(* control flow of the filter are evaluated exactly on integers.  NaN is a *)
(* value of its own, for which every ordered comparison is false.          *)
(***************************************************************************)
EXTENDS Integers, Sequences, FiniteSets, TLC

VARIABLES
    (* ---- a 1-D profile and the pure functions applied to it ---- *)
    op,              \* which function was last applied to the profile
    x_vals,          \* positions of the profile
    y_vals,          \* charges of the profile
    sigma_threshold, \* the filter threshold k, in tenths (25 = 2.5)
    filtered,        \* FilterPowerLorentzianOutliers(x_vals, y_vals, k)
    refiltered,      \* the filter applied to its own output, same k
    statistics,      \* CalculateRobustStatisticsPowerLorentzian(x_vals, y_vals)
    removal,         \* a call of RemovePowerLorentzianOutliers and its result
    (* ---- the threads calling the fit functions ---- *)
    scope,           \* which inputs the specification draws
    mutex,           \* gCeresPowerLorentzianFitMutex: 0, or the thread holding it
    call,            \* per thread: the public function it called
    fit              \* per thread: its frame of FitPowerLorentzianCeres

profile_vars == <<op, x_vals, y_vals, sigma_threshold, filtered, refiltered,
                  statistics, removal>>

thread_vars == <<mutex, call, fit>>

vars == <<op, x_vals, y_vals, sigma_threshold, filtered, refiltered,
          statistics, removal, scope, mutex, call, fit>>

-----------------------------------------------------------------------------
(* Bounds of the model *)

\* longest profile enumerated for the pure functions
MaxLen == 7

\* the charges a profile point can carry
Charges == {0, 1, 3}

\* fixed-point unit of the non-integer doubles
E4 == 100 * 100

\* the value NaN of a double
NaN == 0 - 2000000000

\* 1.4826, in units of 1/E4
MadFactorE4 == 14826

\* the minimum number of points of a fit
MinPoints == 5

\* number of threads calling into the fit functions
NumThreads == 2

Threads == 1..NumThreads

\* longest profile handed to FitPowerLorentzianCeres
FitMaxLen == 5

\* the charges of a profile handed to FitPowerLorentzianCeres
FitCharges == {0, 3}

\* the pixel spacings a profile is estimated with, in 1/E4
FitPixelSpacings == {0, E4}

-----------------------------------------------------------------------------
(* Arithmetic helpers *)

IsNaN(v) == v = NaN

Abs(v) == IF v < 0 THEN 0 - v ELSE v

\* std::max(a, b) == (a < b) ? b : a
StdMax(a, b) == IF IsNaN(a) \/ IsNaN(b) THEN a ELSE IF a < b THEN b ELSE a

\* std::min(a, b) == (b < a) ? b : a
StdMin(a, b) == IF IsNaN(a) \/ IsNaN(b) THEN a ELSE IF b < a THEN b ELSE a

RECURSIVE SumSeq(_)
SumSeq(s) == IF s = <<>> THEN 0 ELSE Head(s) + SumSeq(Tail(s))

RECURSIVE ISqrtIn(_, _, _)
\* the largest r in lo..hi with r*r <= v  (lo*lo <= v is given)
ISqrtIn(v, lo, hi) ==
    IF lo >= hi THEN lo
    ELSE LET mid == (lo + hi + 1) \div 2
         IN IF mid * mid <= v THEN ISqrtIn(v, mid, hi)
                              ELSE ISqrtIn(v, lo, mid - 1)

\* floor of the square root of v >= 0
ISqrt(v) == ISqrtIn(v, 0, IF v < 46340 THEN v ELSE 46340)

\* std::sort of a vector<double>
Sorted(s) == SortSeq(s, LAMBDA a, b : a < b)

MinOf(s) == Sorted(s)[1]
MaxOf(s) == Sorted(s)[Len(s)]

-----------------------------------------------------------------------------
(* CalculateRobustStatisticsPowerLorentzian *)

\* vector index i of the code (0-based) of sequence s
At(s, i) == s[i + 1]

\* twice the median of the sorted copy: the middle element, or the sum of
\* the two middle elements of an even-length vector
Median2(sorted_y) ==
    LET n == Len(sorted_y)
    IN IF n % 2 = 0 THEN At(sorted_y, n \div 2 - 1) + At(sorted_y, n \div 2)
                    ELSE 2 * At(sorted_y, n \div 2)

\* the sorted absolute deviations from the median, doubled
AbsDeviations2(ys, median2) ==
    Sorted([i \in 1..Len(ys) |-> Abs(2 * ys[i] - median2)])

\* a MAD that is taken as it comes
MadKindUnguarded(raw_mad, var_n2) == "mad"

\* the safeguard of lines 162-165: which value stats.mad ends with.  raw_mad
\* and the variance are multiples of 1/E4 and of 1/n^2, so each is below
\* 1e-12 exactly when it is 0
MadKind(raw_mad, var_n2) ==
    IF raw_mad > 0 THEN "mad" ELSE IF var_n2 > 0 THEN "std_dev" ELSE "floor"

CalculateRobustStatisticsPowerLorentzian(xs, ys) ==
    IF Len(xs) # Len(ys) \/ Len(xs) = 0 THEN [valid |-> FALSE]
    ELSE
    LET n        == Len(ys)
        sorted_y == Sorted(ys)
        median2  == Median2(sorted_y)
        q25      == At(sorted_y, n \div 4)
        q75      == At(sorted_y, (3 * n) \div 4)
        sum      == SumSeq(ys)
        \* n^2 * variance = n * sum(y^2) - (sum y)^2
        var_n2   == n * SumSeq([i \in 1..n |-> ys[i] * ys[i]]) - sum * sum
        \* abs_deviations[n/2], doubled
        dev2     == At(AbsDeviations2(ys, median2), n \div 2)
        \* abs_deviations[n/2] * 1.4826, in 1/E4
        raw_mad  == (dev2 * MadFactorE4) \div 2
        \* std_dev = sqrt(variance / n^2 ...) in 1/E4 (three decimals kept)
        std_dev  == (ISqrt(var_n2 * 1000000) * 10) \div n
        \* the safeguard of lines 162-165: a MAD below 1e-12 is replaced by
        \* the standard deviation, or by 1e-12 (below the unit: kept as 0)
        mad_kind == MadKind(raw_mad, var_n2)
        mad      == IF mad_kind = "mad" THEN raw_mad
                    ELSE IF mad_kind = "std_dev" THEN std_dev ELSE 0
        weight(i) == IF ys[i] - q25 > 0 THEN ys[i] - q25 ELSE 0
        total_weight == SumSeq([i \in 1..n |-> weight(i)])
        weighted_sum == SumSeq([i \in 1..n |-> xs[i] * weight(i)])
        \* the weighted mean is center_num / center_den
        center_num == IF total_weight > 0 THEN weighted_sum ELSE SumSeq(xs)
        center_den == IF total_weight > 0 THEN total_weight ELSE n
    IN [valid |-> TRUE, n |-> n,
        min_val |-> At(sorted_y, 0), max_val |-> At(sorted_y, n - 1),
        sum |-> sum, var_n2 |-> var_n2, std_dev |-> std_dev,
        median2 |-> median2, q25 |-> q25, q75 |-> q75,
        dev2 |-> dev2, mad_kind |-> mad_kind, mad |-> mad,
        total_weight |-> total_weight,
        center_num |-> center_num, center_den |-> center_den,
        weighted_mean |-> (center_num * E4) \div center_den]

\* lower_threshold <= v <= outlier_threshold, for the thresholds
\* median -/+ k * mad with k = k10 / 10, evaluated exactly:
\*   |v - median| <= k * mad
InBand(stats, k10, v) ==
    LET d2 == Abs(2 * v - stats.median2)     \* 2 * |v - median|
    IN CASE stats.mad_kind = "mad" ->
              \* mad = (dev2 / 2) * 1.4826
              d2 * 10 * E4 <= k10 * stats.dev2 * MadFactorE4
         [] stats.mad_kind = "std_dev" ->
              \* mad = sqrt(var_n2) / n
              (d2 * 10 * stats.n) * (d2 * 10 * stats.n)
                  <= 4 * k10 * k10 * stats.var_n2
         [] OTHER ->
              \* mad = 1e-12
              d2 = 0

-----------------------------------------------------------------------------
(* FilterPowerLorentzianOutliers *)

RECURSIVE KeepInBand(_, _, _, _)
\* the points of (xs, ys) from index i on whose charge is within the band
KeepInBand(xs, ys, keep, i) ==
    IF i > Len(ys) THEN [x |-> <<>>, y |-> <<>>]
    ELSE LET rest == KeepInBand(xs, ys, keep, i + 1)
         IN IF keep[i] THEN [x |-> <<xs[i]>> \o rest.x, y |-> <<ys[i]>> \o rest.y]
                       ELSE rest

\* the filter without its floor of lines 369-375
FilterWithoutFloor(xs, ys, k10) ==
    IF Len(xs) # Len(ys) \/ Len(xs) < MinPoints THEN [x |-> <<>>, y |-> <<>>]
    ELSE LET stats == CalculateRobustStatisticsPowerLorentzian(xs, ys)
         IN KeepInBand(xs, ys, [i \in 1..Len(ys) |-> InBand(stats, k10, ys[i])], 1)

FilterPowerLorentzianOutliers(xs, ys, k10) ==
    IF Len(xs) # Len(ys) \/ Len(xs) < MinPoints THEN [x |-> <<>>, y |-> <<>>]
    ELSE
    LET stats == CalculateRobustStatisticsPowerLorentzian(xs, ys)
    IN IF ~stats.valid THEN [x |-> xs, y |-> ys]
       ELSE
       LET first  == KeepInBand(xs, ys,
                        [i \in 1..Len(ys) |-> InBand(stats, k10, ys[i])], 1)
           \* "lenient filtering if too many outliers removed"
           second == IF Len(first.x) < Len(xs) \div 2
                     THEN KeepInBand(xs, ys,
                            [i \in 1..Len(ys) |-> InBand(stats, 40, ys[i])], 1)
                     ELSE first
       IN IF Len(second.x) < MinPoints THEN [x |-> xs, y |-> ys] ELSE second

-----------------------------------------------------------------------------
(* EstimatePowerLorentzianParameters *)

\* a double holding the integer v, in 1/E4
Fix(v) == v * E4

\* a Method 1 whose width is capped at 3 * pixel_spacing but has no floor
Method1WidthUnclamped(stats, xs, ys, pixel_spacing) ==
    LET n         == Len(ys)
        baseline  == IF stats.q25 < stats.min_val THEN stats.q25 ELSE stats.min_val
        amplitude == stats.max_val - baseline
        weight(i) == IF ys[i] - baseline > 0 THEN ys[i] - baseline ELSE 0
        used(i)   == 10 * weight(i) > amplitude
        cn        == stats.center_num
        cd        == stats.center_den
        spread    == SumSeq([i \in 1..n |->
                       IF used(i) THEN weight(i) * (xs[i] * cd - cn) * (xs[i] * cd - cn)
                                  ELSE 0])
        weight_sum == SumSeq([i \in 1..n |-> IF used(i) THEN weight(i) ELSE 0])
        g_num     == 2 * spread
        g_den     == cd * cd * weight_sum
        g2_milli  == (g_num \div g_den) * 1000 + ((g_num % g_den) * 1000) \div g_den
        gamma0    == IF weight_sum > 0 THEN ISqrt(g2_milli * 1000) * 10
                                       ELSE (7 * pixel_spacing) \div 10
    IN [amplitude |-> StdMax(Fix(amplitude), (stats.max_val - stats.min_val) * 1000),
        center    |-> stats.weighted_mean,
        gamma     |-> StdMin(3 * pixel_spacing, gamma0),
        beta      |-> Fix(1),
        baseline  |-> Fix(baseline)]

\* Method 1 (physics-based), lines 234-262.  pixel_spacing and the result
\* are in 1/E4.
Method1(stats, xs, ys, pixel_spacing) ==
    LET n         == Len(ys)
        baseline  == IF stats.q25 < stats.min_val THEN stats.q25 ELSE stats.min_val
        amplitude == stats.max_val - baseline
        weight(i) == IF ys[i] - baseline > 0 THEN ys[i] - baseline ELSE 0
        \* weight > 0.1 * estimates.amplitude
        used(i)   == 10 * weight(i) > amplitude
        cn        == stats.center_num
        cd        == stats.center_den
        \* distance_spread * cd^2 and weight_sum
        spread    == SumSeq([i \in 1..n |->
                       IF used(i) THEN weight(i) * (xs[i] * cd - cn) * (xs[i] * cd - cn)
                                  ELSE 0])
        weight_sum == SumSeq([i \in 1..n |-> IF used(i) THEN weight(i) ELSE 0])
        \* gamma^2 = 2 * distance_spread / weight_sum = g_num / g_den
        g_num     == 2 * spread
        g_den     == cd * cd * weight_sum
        g2_milli  == (g_num \div g_den) * 1000 + ((g_num % g_den) * 1000) \div g_den
        gamma0    == IF weight_sum > 0 THEN ISqrt(g2_milli * 1000) * 10
                                       ELSE (7 * pixel_spacing) \div 10
        gamma     == StdMax((3 * pixel_spacing) \div 10,
                            StdMin(3 * pixel_spacing, gamma0))
        \* (max_val - min_val) * 0.1
        floor_amp == (stats.max_val - stats.min_val) * 1000
    IN [amplitude |-> StdMax(Fix(amplitude), floor_amp),
        center    |-> stats.weighted_mean,
        gamma     |-> gamma,
        beta      |-> Fix(1),
        baseline  |-> Fix(baseline)]

\* Method 2 (robust statistical), lines 280-284
Method2(stats, pixel_spacing) ==
    [amplitude |-> Fix(stats.q75 - stats.q25),
     center    |-> (stats.median2 * E4) \div 2,
     gamma     |-> StdMax(stats.mad, pixel_spacing \div 2),
     beta      |-> Fix(1),
     baseline  |-> Fix(stats.q25)]

\* Method 3 (conservative fallback), lines 299-303
Method3(stats, center_estimate, pixel_spacing) ==
    [amplitude |-> Fix(stats.max_val),
     center    |-> center_estimate,
     gamma     |-> (7 * pixel_spacing) \div 10,
     beta      |-> Fix(1),
     baseline  |-> 0]

\* the validation of Method 1, lines 265-267
Method1Valid(e) ==
    /\ ~IsNaN(e.amplitude) /\ e.amplitude > 0
    /\ ~IsNaN(e.gamma) /\ e.gamma > 0
    /\ ~IsNaN(e.center) /\ ~IsNaN(e.beta) /\ ~IsNaN(e.baseline)

\* the validation of Method 2, line 286
Method2Valid(e) ==
    /\ ~IsNaN(e.amplitude) /\ e.amplitude > 0
    /\ ~IsNaN(e.gamma) /\ e.gamma > 0

NoEstimates ==
    [valid |-> FALSE, method_used |-> 0, amplitude |-> NaN, center |-> NaN,
     gamma |-> NaN, beta |-> NaN, baseline |-> NaN]

Tagged(e, method) ==
    [valid |-> TRUE, method_used |-> method, amplitude |-> e.amplitude,
     center |-> e.center, gamma |-> e.gamma, beta |-> e.beta,
     baseline |-> e.baseline]

\* an estimator that goes from Method 1 straight to the fallback
EstimateWithoutMethod2(xs, ys, center_estimate, pixel_spacing) ==
    IF Len(xs) # Len(ys) \/ Len(xs) < MinPoints THEN NoEstimates
    ELSE
    LET stats == CalculateRobustStatisticsPowerLorentzian(xs, ys)
    IN IF ~stats.valid THEN NoEstimates
       ELSE LET m1 == Method1(stats, xs, ys, pixel_spacing)
            IN IF Method1Valid(m1) THEN Tagged(m1, 1)
               ELSE Tagged(Method3(stats, center_estimate, pixel_spacing), 3)

\* lines 209-314
EstimatePowerLorentzianParameters(xs, ys, center_estimate, pixel_spacing) ==
    IF Len(xs) # Len(ys) \/ Len(xs) < MinPoints THEN NoEstimates
    ELSE
    LET stats == CalculateRobustStatisticsPowerLorentzian(xs, ys)
    IN IF ~stats.valid THEN NoEstimates
       ELSE LET m1 == Method1(stats, xs, ys, pixel_spacing)
                m2 == Method2(stats, pixel_spacing)
            IN IF Method1Valid(m1) THEN Tagged(m1, 1)
               ELSE IF Method2Valid(m2) THEN Tagged(m2, 2)
               ELSE Tagged(Method3(stats, center_estimate, pixel_spacing), 3)

-----------------------------------------------------------------------------
(* The candidate datasets of FitPowerLorentzianCeres (lines 413-429) *)

\* a list that puts the original data first
FilteredDatasetsOriginalFirst(xs, ys, enable_outlier_filtering) ==
    LET conservative_data == FilterPowerLorentzianOutliers(xs, ys, 25)
        lenient_data      == FilterPowerLorentzianOutliers(xs, ys, 30)
    IN <<[x |-> xs, y |-> ys]>>
       \o
       (IF enable_outlier_filtering
        THEN (IF Len(conservative_data.x) >= MinPoints
              THEN <<conservative_data>> ELSE <<>>)
             \o
             (IF Len(lenient_data.x) >= MinPoints
              THEN <<lenient_data>> ELSE <<>>)
        ELSE <<>>)

\* a list that holds the original data before and after the filtered variants
FilteredDatasetsOriginalTwice(xs, ys, enable_outlier_filtering) ==
    <<[x |-> xs, y |-> ys]>>
    \o FilteredDatasetsOriginalFirst(xs, ys, enable_outlier_filtering)

FilteredDatasets(xs, ys, enable_outlier_filtering) ==
    LET conservative_data == FilterPowerLorentzianOutliers(xs, ys, 25)
        lenient_data      == FilterPowerLorentzianOutliers(xs, ys, 30)
    IN (IF enable_outlier_filtering
        THEN (IF Len(conservative_data.x) >= MinPoints
              THEN <<conservative_data>> ELSE <<>>)
             \o
             (IF Len(lenient_data.x) >= MinPoints
              THEN <<lenient_data>> ELSE <<>>)
        ELSE <<>>)
       \o <<[x |-> xs, y |-> ys]>>

-----------------------------------------------------------------------------
(* FitPowerLorentzianCeres: the frame of one call                          *)
(*                                                                         *)
(* pc is the position of the call: "solve1" inside the Stage-1             *)
(* ceres::Solve, "solve2" inside the second ceres::Solve (Stage 2 or the   *)
(* single-stage fallback), "cov" inside covariance.Compute, "ret" after    *)
(* the return.  dataset_idx and config_idx count from 1.  The fields       *)
(* tried, verdicts, solves, n_solves, n_cov, estimation_failed,            *)
(* stage1_parameters, stage1_termination, last_solve and cov_log record    *)
(* what the call did; the code has no such variables.                      *)

\* the five solver configurations of lines 471-521
NumConfigs == 5

\* the four covariance configurations of lines 653-658
NumCovConfigs == 4

\* Constants::MIN_UNCERTAINTY_VALUE, in 1/E4 (Constants.hh)
MIN_UNCERTAINTY_VALUE == 1

\* the value an output parameter holds before the call writes it
Unwritten == 0 - 1999999999

NoOutputs ==
    [fit_amplitude |-> Unwritten, fit_center |-> Unwritten,
     fit_gamma |-> Unwritten, fit_beta |-> Unwritten,
     fit_vertical_offset |-> Unwritten,
     fit_amplitude_err |-> Unwritten, fit_center_err |-> Unwritten,
     fit_gamma_err |-> Unwritten, fit_beta_err |-> Unwritten,
     fit_vertical_offset_err |-> Unwritten, chi2_reduced |-> Unwritten]

NoBounds == [lower |-> <<>>, upper |-> <<>>]

FitIdle ==
    [pc |-> "idle", ret |-> FALSE,
     x_vals |-> <<>>, y_vals |-> <<>>, center_estimate |-> 0,
     pixel_spacing |-> 0, enable_outlier_filtering |-> FALSE,
     datasets |-> <<>>, dataset_idx |-> 0, config_idx |-> 0,
     estimates |-> NoEstimates, parameters |-> <<>>, bounds |-> NoBounds,
     stage1_successful |-> FALSE, final_cost |-> 0,
     cov_idx |-> 0, cov_success |-> FALSE, out |-> NoOutputs,
     tried |-> <<>>, verdicts |-> <<>>, solves |-> <<>>,
     n_solves |-> 0, n_cov |-> 0, estimation_failed |-> FALSE,
     stage1_parameters |-> <<>>, stage1_termination |-> "",
     last_solve |-> <<>>, cov_log |-> <<>>]

\* bounds whose width interval starts at 0.5 * pixel_spacing
ParameterBoundsWidthFromHalf(estimates, clean_y, pixel_spacing) ==
    LET amp_min         == StdMax(MIN_UNCERTAINTY_VALUE, estimates.amplitude \div 100)
        amp_max         == StdMin((Fix(MaxOf(clean_y)) * 3) \div 2,
                                  estimates.amplitude * 100)
        baseline_range  == StdMax(estimates.amplitude \div 2,
                                  Abs(estimates.baseline) * 2)
    IN [lower |-> <<amp_min, estimates.center - pixel_spacing * 3,
                    pixel_spacing \div 2, 2000,
                    estimates.baseline - baseline_range>>,
        upper |-> <<amp_max, estimates.center + pixel_spacing * 3,
                    pixel_spacing * 4, 40000,
                    estimates.baseline + baseline_range>>]

\* the bounds of lines 545-567; parameters[0..4] are entries 1..5
ParameterBounds(estimates, clean_y, pixel_spacing) ==
    LET amp_min         == StdMax(MIN_UNCERTAINTY_VALUE, estimates.amplitude \div 100)
        max_charge_val  == MaxOf(clean_y)
        physics_amp_max == (Fix(max_charge_val) * 3) \div 2
        algo_amp_max    == estimates.amplitude * 100
        amp_max         == StdMin(physics_amp_max, algo_amp_max)
        center_range    == pixel_spacing * 3
        baseline_range  == StdMax(estimates.amplitude \div 2,
                                  Abs(estimates.baseline) * 2)
    IN [lower |-> <<amp_min, estimates.center - center_range,
                    pixel_spacing \div 20, 2000,
                    estimates.baseline - baseline_range>>,
        upper |-> <<amp_max, estimates.center + center_range,
                    pixel_spacing * 4, 40000,
                    estimates.baseline + baseline_range>>]

\* SetParameterLowerBound / SetParameterUpperBound of parameter i (from 1)
SetBounds(bounds, i, lo, hi) ==
    [lower |-> [bounds.lower EXCEPT ![i] = lo],
     upper |-> [bounds.upper EXCEPT ![i] = hi]]

\* what one ceres::Solve call is given
SolveRecord(f, stage, bounds) ==
    [stage |-> stage, dataset_idx |-> f.dataset_idx, config_idx |-> f.config_idx,
     beta_lower |-> bounds.lower[4], beta_upper |-> bounds.upper[4],
     center_lower |-> bounds.lower[2], center_upper |-> bounds.upper[2]]

\* lines 524-593: the problem of configuration c on the current dataset is
\* built, beta is confined to [0.9, 1.1] and the Stage-1 solve is entered
BeginAttempt(f, c) ==
    LET clean  == f.datasets[f.dataset_idx]
        start  == <<f.estimates.amplitude, f.estimates.center, f.estimates.gamma,
                    f.estimates.beta, f.estimates.baseline>>
        bounds == SetBounds(ParameterBounds(f.estimates, clean.y, f.pixel_spacing),
                            4, 9000, 11000)
        g      == [f EXCEPT !.config_idx = c]
    IN [g EXCEPT !.pc = "solve1",
                 !.parameters = start,
                 !.bounds = bounds,
                 !.stage1_successful = FALSE,
                 !.stage1_parameters = <<>>,
                 !.tried = Append(f.tried, <<f.dataset_idx, c>>),
                 !.solves = <<SolveRecord(g, "stage1", bounds)>>,
                 !.n_solves = f.n_solves + 1]

\* lines 727-730
ReturnFalse(f) == [f EXCEPT !.pc = "ret", !.ret = FALSE]

RECURSIVE EnterDataset(_, _)
\* lines 437-454: the dataset loop from dataset d on
EnterDataset(f, d) ==
    IF d > Len(f.datasets) THEN ReturnFalse(f)
    ELSE
    LET clean     == f.datasets[d]
        estimates == EstimatePowerLorentzianParameters(
                        clean.x, clean.y, f.center_estimate, f.pixel_spacing)
    IN IF Len(clean.x) < MinPoints THEN EnterDataset(f, d + 1)
       ELSE IF ~estimates.valid
       THEN EnterDataset([f EXCEPT !.estimation_failed = TRUE], d + 1)
       ELSE BeginAttempt([f EXCEPT !.dataset_idx = d, !.estimates = estimates], 1)

\* a dataset loop that gives up a dataset after its first configuration
NextAttemptOneConfig(f) == EnterDataset(f, f.dataset_idx + 1)

\* the rejected attempt is left: next configuration, else next dataset
NextAttempt(f) ==
    IF f.config_idx < NumConfigs THEN BeginAttempt(f, f.config_idx + 1)
    ELSE EnterDataset(f, f.dataset_idx + 1)

\* an entry without the size check of lines 406-411
StartFitUnchecked(out, xs, ys, center_estimate, pixel_spacing, enable) ==
    EnterDataset(
        [FitIdle EXCEPT !.x_vals = xs, !.y_vals = ys,
                        !.center_estimate = center_estimate,
                        !.pixel_spacing = pixel_spacing,
                        !.enable_outlier_filtering = enable,
                        !.out = [out EXCEPT !.chi2_reduced = 0],
                        !.datasets = FilteredDatasets(xs, ys, enable)], 1)

\* lines 406-436: the call is entered; out holds the caller's values of
\* the eleven output references
StartFit(out, xs, ys, center_estimate, pixel_spacing, enable) ==
    LET f == [FitIdle EXCEPT !.x_vals = xs, !.y_vals = ys,
                             !.center_estimate = center_estimate,
                             !.pixel_spacing = pixel_spacing,
                             !.enable_outlier_filtering = enable,
                             !.out = out]
    IN IF Len(xs) # Len(ys) \/ Len(xs) < MinPoints THEN ReturnFalse(f)
       ELSE EnterDataset(
              [f EXCEPT !.datasets = FilteredDatasets(xs, ys, enable)], 1)

\* termination_type == CONVERGENCE || termination_type == USER_SUCCESS
Converged(summary) == summary.termination_type \in {"CONVERGENCE", "USER_SUCCESS"}

Positive(v) == ~IsNaN(v) /\ v > 0

NoNaN(parameters) == \A i \in 1..5 : ~IsNaN(parameters[i])

\* a Stage-1 check that ignores the termination type
Stage1SuccessfulAnyTermination(summary, parameters) ==
    /\ Positive(parameters[1]) /\ Positive(parameters[3])
    /\ NoNaN(parameters)

\* lines 596-601
Stage1Successful(summary, parameters) ==
    /\ Converged(summary)
    /\ Positive(parameters[1]) /\ Positive(parameters[3])
    /\ NoNaN(parameters)

\* an acceptance test without the upper limit of beta
FitSuccessfulNoBetaLimit(summary, parameters) ==
    /\ Converged(summary)
    /\ Positive(parameters[1]) /\ Positive(parameters[3])
    /\ ~IsNaN(parameters[4]) /\ parameters[4] > 1000
    /\ NoNaN(parameters)

\* lines 634-640
FitSuccessful(summary, parameters) ==
    /\ Converged(summary)
    /\ Positive(parameters[1]) /\ Positive(parameters[3])
    /\ ~IsNaN(parameters[4]) /\ parameters[4] > 1000 /\ parameters[4] < 50000
    /\ NoNaN(parameters)

\* lines 595-631: the Stage-1 solve returned `summary` and left `parameters`;
\* the bounds of the second solve are set and the second solve is entered
AfterStage1(f, summary, parameters) ==
    LET ok     == Stage1Successful(summary, parameters)
        wide   == SetBounds(f.bounds, 4, 2000, 40000)
        tight_center_range == f.pixel_spacing \div 2
        bounds == IF ok THEN SetBounds(wide, 2,
                                       parameters[2] - tight_center_range,
                                       parameters[2] + tight_center_range)
                        ELSE wide
        stage  == IF ok THEN "stage2" ELSE "fallback"
    IN [f EXCEPT !.pc = "solve2",
                 !.parameters = parameters,
                 !.stage1_parameters = parameters,
                 !.stage1_termination = summary.termination_type,
                 !.last_solve = <<>>,
                 !.stage1_successful = ok,
                 !.bounds = bounds,
                 !.solves = Append(f.solves, SolveRecord(f, stage, bounds)),
                 !.n_solves = f.n_solves + 1]

\* lines 633-648 and 720-724: the second solve returned; the attempt is
\* accepted and the covariance loop entered, or the next attempt begins
AfterStage2(f, summary, parameters) ==
    LET g == [f EXCEPT !.parameters = parameters,
                       !.stage1_parameters = <<>>,
                       !.stage1_termination = "",
                       !.last_solve = <<summary.termination_type, parameters,
                                        summary.final_cost>>,
                       !.verdicts = Append(f.verdicts,
                                           FitSuccessful(summary, parameters))]
    IN IF FitSuccessful(summary, parameters)
       THEN [g EXCEPT !.pc = "cov", !.cov_idx = 1, !.n_cov = 1,
                      !.final_cost = summary.final_cost,
                      !.out = [f.out EXCEPT
                                 !.fit_amplitude = parameters[1],
                                 !.fit_center = parameters[2],
                                 !.fit_gamma = Abs(parameters[3]),
                                 !.fit_beta = parameters[4],
                                 !.fit_vertical_offset = parameters[5]]]
       ELSE NextAttempt(g)

\* lines 680-684
ErrorsSane(out, pixel_spacing) ==
    /\ ~IsNaN(out.fit_amplitude_err) /\ ~IsNaN(out.fit_center_err)
    /\ ~IsNaN(out.fit_gamma_err) /\ ~IsNaN(out.fit_beta_err)
    /\ ~IsNaN(out.fit_vertical_offset_err)
    /\ out.fit_amplitude_err < 10 * out.fit_amplitude
    /\ out.fit_center_err < 5 * pixel_spacing

\* lines 693-700
FallbackErrors(f) ==
    LET clean      == f.datasets[f.dataset_idx]
        data_stats == CalculateRobustStatisticsPowerLorentzian(clean.x, clean.y)
    IN [f.out EXCEPT
          !.fit_amplitude_err = StdMax(f.out.fit_amplitude \div 50,
                                       data_stats.mad \div 10),
          !.fit_center_err = StdMax(f.pixel_spacing \div 50, f.out.fit_gamma \div 10),
          !.fit_gamma_err = StdMax(f.out.fit_gamma \div 20, f.pixel_spacing \div 100),
          !.fit_beta_err = StdMax(f.out.fit_beta \div 10, 500),
          !.fit_vertical_offset_err =
               StdMax(Abs(f.out.fit_vertical_offset) \div 10, data_stats.mad \div 20)]

\* a return that counts the points of the call, not of the dataset fitted
ReturnTrueCountsInput(f, out) ==
    LET chi2  == f.final_cost * 2
        dof   == IF Len(f.x_vals) - 5 > 1 THEN Len(f.x_vals) - 5 ELSE 1
    IN [f EXCEPT !.pc = "ret", !.ret = TRUE,
                 !.out = [out EXCEPT !.chi2_reduced = chi2 \div dof]]

\* lines 702-719: chi2_reduced is written and the call returns true
ReturnTrue(f, out) ==
    LET clean == f.datasets[f.dataset_idx]
        chi2  == f.final_cost * 2
        dof   == IF Len(clean.x) - 5 > 1 THEN Len(clean.x) - 5 ELSE 1
    IN [f EXCEPT !.pc = "ret", !.ret = TRUE,
                 !.out = [out EXCEPT !.chi2_reduced = chi2 \div dof]]

\* a covariance loop whose failure fails the fit
AfterCovarianceStrict(f, cov) ==
    IF cov.computed /\ cov.got_block THEN ReturnTrue(f, f.out) ELSE ReturnFalse(f)

\* lines 660-700: covariance.Compute of configuration cov_idx returned
AfterCovariance(f, cov) ==
    LET written == IF cov.computed /\ cov.got_block
                   THEN [f.out EXCEPT
                           !.fit_amplitude_err = cov.errors[1],
                           !.fit_center_err = cov.errors[2],
                           !.fit_gamma_err = cov.errors[3],
                           !.fit_beta_err = cov.errors[4],
                           !.fit_vertical_offset_err = cov.errors[5]]
                   ELSE f.out
        sane == cov.computed /\ cov.got_block /\ ErrorsSane(written, f.pixel_spacing)
        g == [f EXCEPT !.out = written, !.cov_log = Append(f.cov_log, sane)]
    IN IF cov.computed /\ cov.got_block /\ ErrorsSane(written, f.pixel_spacing)
       THEN ReturnTrue([g EXCEPT !.cov_success = TRUE], written)
       ELSE IF f.cov_idx < NumCovConfigs
       THEN [g EXCEPT !.cov_idx = f.cov_idx + 1, !.n_cov = f.n_cov + 1]
       ELSE ReturnTrue(g, FallbackErrors(g))

-----------------------------------------------------------------------------
(* The external solver.  ceres::Solve returns a termination type, a final  *)
(* cost and the parameter block it leaves; covariance.Compute and          *)
(* GetCovarianceBlock succeed or fail and yield the five standard errors   *)
(* sqrt(|covariance_matrix[6*i]|).  Both are drawn from the sets below.     *)

\* ceres::TerminationType
TerminationTypes ==
    {"CONVERGENCE", "NO_CONVERGENCE", "FAILURE", "USER_SUCCESS", "USER_FAILURE"}

Summary(termination_type, final_cost) ==
    [termination_type |-> termination_type, final_cost |-> final_cost]

\* a parameter block every test accepts, at the centre the solve started from
BaseParameters(f) == <<Fix(2), f.parameters[2], Fix(1), Fix(1), 0>>

SolveOutcomes(sc, f) ==
    LET base       == BaseParameters(f)
        with(i, v) == [base EXCEPT ![i] = v]
    IN IF sc = "threads"
       THEN {[summary |-> Summary(t, 25000), parameters |-> base] :
                t \in IF f.pc = "solve1" THEN {"CONVERGENCE"}
                      ELSE {"CONVERGENCE", "NO_CONVERGENCE"}}
       ELSE IF sc \in {"grid", "callers"}
       \* a 1-D fit succeeds at its first attempt or fails at every attempt
       THEN {[summary |-> Summary(t, 25000), parameters |-> base] :
                t \in IF f.pc = "solve1" THEN {"CONVERGENCE"}
                      ELSE IF Len(f.tried) = 1
                      THEN {"CONVERGENCE", "NO_CONVERGENCE"}
                      ELSE {"NO_CONVERGENCE"}}
       ELSE {[summary |-> Summary(t, 25000), parameters |-> base] :
                t \in TerminationTypes}
            \cup
            {[summary |-> Summary("CONVERGENCE", 25000), parameters |-> p] :
                p \in {with(1, NaN), with(1, 0), with(2, NaN),
                       with(3, NaN), with(3, 0),
                       with(4, NaN), with(4, 1000), with(4, 50000),
                       with(5, NaN)}}
            \cup
            \* the centre at its upper bound, a perfect fit
            {[summary |-> Summary("CONVERGENCE", 0),
              parameters |-> with(2, f.bounds.upper[2])]}

CovarianceOutcomes(sc, f) ==
    LET good == <<f.out.fit_amplitude \div 10, 1000, 1000, 1000, 1000>>
        failed == [computed |-> FALSE, got_block |-> FALSE, errors |-> <<>>]
        ok(e)  == [computed |-> TRUE, got_block |-> TRUE, errors |-> e]
    IN IF sc \in {"threads", "callers"} THEN {ok(good)}
       ELSE IF sc = "grid"
       \* the calls that filter outliers meet covariance failures as well
       THEN IF f.enable_outlier_filtering THEN {failed, ok(good)} ELSE {ok(good)}
       ELSE {failed,
             [computed |-> TRUE, got_block |-> FALSE, errors |-> <<>>],
             ok(good),
             ok([good EXCEPT ![1] = 10 * f.out.fit_amplitude]),
             ok([good EXCEPT ![2] = NaN])}

-----------------------------------------------------------------------------
(* The threads *)

\* positions of a profile of n points: consecutive pixels
Positions(n) == [i \in 1..n |-> i]

\* the charge profiles handed to FitPowerLorentzianCeres: every profile of
\* 4 to FitMaxLen points, one from which the two filters remove different
\* points, and one of 8 points of which the filters leave 7
FitProfiles ==
    UNION {[1..n -> FitCharges] : n \in (MinPoints - 1)..FitMaxLen}
    \cup {<<0, 0, 0, 0, 0, 1>>, <<0, 0, 0, 0, 0, 0, 0, 3>>}

NoCall == [fn |-> "none"]

\* the threads that call in a scope
Callers(sc) == IF sc \in {"fit", "grid"} THEN {1} ELSE Threads

-----------------------------------------------------------------------------
(* Fit2DPowerLorentzianCeres and FitDiagonalPowerLorentzianCeres.  The     *)
(* frame of a call holds its arguments, the 1-D fits it has to make        *)
(* (lines, in the order of the code) and its result.  pc is "lock" while   *)
(* the lock_guard waits for the mutex, "fit" while a 1-D fit is inside the *)
(* solver, "done" after the return.  Coordinates are integers in position  *)
(* units, pixel_spacing is in 1/E4.                                        *)

\* sqrt(2) of line 1102, in 1/E4
Sqrt2E4 == 14142

\* Constants::ENABLE_VERTICAL_CHARGE_UNCERTAINTIES (Constants.hh)
ENABLE_VERTICAL_CHARGE_UNCERTAINTIES == TRUE

\* one fitted line of a default-constructed result
NoLineResult ==
    [fit_successful |-> FALSE, out |-> NoOutputs, dof |-> Unwritten,
     pp |-> Unwritten, pixel_coords |-> <<>>, charge_values |-> <<>>,
     charge_uncertainty |-> Unwritten]

\* the point clouds handed to the 2-D entry points: <<x, y, charge>>
\* triples with the center estimates of the call
Cross ==
    [points |-> <<<<1, 3, 1>>, <<2, 3, 2>>, <<3, 3, 3>>, <<4, 3, 2>>, <<5, 3, 1>>,
                  <<3, 1, 1>>, <<3, 2, 2>>, <<3, 4, 2>>, <<3, 5, 1>>, <<1, 1, 0>>>>,
     center_x_estimate |-> 3, center_y_estimate |-> 3]

RowOnly ==
    [points |-> <<<<5, 3, 1>>, <<4, 3, 2>>, <<3, 3, 3>>, <<2, 3, 2>>, <<1, 3, 1>>,
                  <<3, 2, 2>>, <<3, 4, 2>>>>,
     center_x_estimate |-> 3, center_y_estimate |-> 3]

MainDiagonal ==
    [points |-> <<<<1, 1, 1>>, <<2, 2, 2>>, <<3, 3, 3>>, <<4, 4, 2>>, <<5, 5, 1>>,
                  <<1, 0 - 1, 1>>, <<2, 0 - 2, 3>>, <<3, 0 - 3, 1>>>>,
     center_x_estimate |-> 0, center_y_estimate |-> 0]

Few ==
    [points |-> <<<<1, 3, 1>>, <<2, 3, 2>>, <<3, 3, 3>>, <<4, 3, 2>>>>,
     center_x_estimate |-> 3, center_y_estimate |-> 3]

PointClouds == {Cross, RowOnly, MainDiagonal, Few}

\* the cross, with the estimate of the centre on a row of one point
OffCentre == [Cross EXCEPT !.center_y_estimate = 2]

\* two rows of five points, the estimate of the centre between them nearer
\* to the upper one
TwoRows ==
    [points |-> <<<<1, 1, 1>>, <<2, 1, 2>>, <<3, 1, 3>>, <<4, 1, 2>>, <<5, 1, 1>>,
                  <<1, 4, 1>>, <<2, 4, 3>>, <<3, 4, 1>>, <<4, 4, 3>>, <<5, 4, 1>>,
                  <<3, 3, 0 - 1>>>>,
     center_x_estimate |-> 3, center_y_estimate |-> 3]

\* both diagonals through the centre, five points each
Saltire ==
    [points |-> <<<<0 - 2, 0 - 2, 1>>, <<0 - 1, 0 - 1, 2>>, <<0, 0, 3>>,
                  <<1, 1, 2>>, <<2, 2, 1>>,
                  <<0 - 2, 2, 1>>, <<0 - 1, 1, 2>>, <<1, 0 - 1, 2>>, <<2, 0 - 2, 1>>>>,
     center_x_estimate |-> 0, center_y_estimate |-> 0]

\* a row of eight points whose last charge the outlier filters remove
LongRow ==
    [points |-> <<<<1, 3, 1>>, <<2, 3, 1>>, <<3, 3, 1>>, <<4, 3, 1>>, <<5, 3, 1>>,
                  <<6, 3, 1>>, <<7, 3, 1>>, <<8, 3, 4>>>>,
     center_x_estimate |-> 4, center_y_estimate |-> 3]

\* number of points of the generated point clouds
GridLen == 5

\* the y coordinates of the generated point clouds
GridRows == {0, 2, 3, 5}

\* the pixel spacing of the generated clouds, in 1/E4: a tolerance of 3
GridSpacing == 30 * E4

\* the generated point clouds: points of x = 1, 2, ... on every sequence of
\* rows, all of charge 1 or all but one, of charge 0
GridClouds ==
    {[points |-> [i \in 1..GridLen |-> <<i, ys[i], IF i = z THEN 0 ELSE 1>>],
      center_x_estimate |-> 3, center_y_estimate |-> 3] :
        ys \in [1..GridLen -> GridRows], z \in 0..GridLen}

\* the calls of the 2-D entry point fn made in a scope: a cloud, a pixel
\* spacing, the filtering flag and the number of charges left out
Requests2D(sc, fn) ==
    {[cloud |-> c, pixel_spacing |-> E4, enable |-> e, missing |-> m] :
        c \in IF sc = "grid"
                 THEN PointClouds \cup {OffCentre, TwoRows, Saltire, LongRow}
                 ELSE IF sc = "callers" THEN {Cross}
                 ELSE PointClouds,
        e \in IF sc = "callers" THEN {FALSE} ELSE BOOLEAN, m \in {0, 1}}
    \cup
    (IF sc = "grid" /\ fn = "Fit2DPowerLorentzianCeres"
     THEN {[cloud |-> c, pixel_spacing |-> GridSpacing, enable |-> FALSE,
            missing |-> 0] : c \in GridClouds}
     ELSE {})

Column(points, j) == [i \in 1..Len(points) |-> points[i][j]]

\* std::sort of (coordinate, charge) pairs
SortPairs(pairs) ==
    SortSeq(pairs, LAMBDA a, b : a[1] < b[1] \/ (a[1] = b[1] /\ a[2] < b[2]))

RECURSIVE GroupPointsInclusive(_, _, _, _, _, _)
\* a grouping whose tolerance includes its limit
GroupPointsInclusive(keys, coords, charges, pixel_spacing, i, groups) ==
    IF i > Len(charges) THEN groups
    ELSE IF charges[i] <= 0
    THEN GroupPointsInclusive(keys, coords, charges, pixel_spacing, i + 1, groups)
    ELSE
    LET near  == {k \in DOMAIN groups : 10 * Fix(Abs(k - keys[i])) <= pixel_spacing}
        entry == <<coords[i], charges[i]>>
        first == CHOOSE k \in near : \A j \in near : k <= j
    IN GroupPointsInclusive(keys, coords, charges, pixel_spacing, i + 1,
         IF near # {}
         THEN [groups EXCEPT ![first] = Append(@, entry)]
         ELSE [k \in DOMAIN groups \cup {keys[i]} |->
                  IF k = keys[i] THEN <<entry>> ELSE groups[k]])

RECURSIVE GroupPointsNearest(_, _, _, _, _, _)
\* a grouping that joins a point to the nearest group within the tolerance
GroupPointsNearest(keys, coords, charges, pixel_spacing, i, groups) ==
    IF i > Len(charges) THEN groups
    ELSE IF charges[i] <= 0
    THEN GroupPointsNearest(keys, coords, charges, pixel_spacing, i + 1, groups)
    ELSE
    LET near  == {k \in DOMAIN groups : 10 * Fix(Abs(k - keys[i])) < pixel_spacing}
        entry == <<coords[i], charges[i]>>
        best  == CHOOSE k \in near :
                   \A j \in near : \/ Abs(k - keys[i]) < Abs(j - keys[i])
                                   \/ (Abs(k - keys[i]) = Abs(j - keys[i]) /\ k <= j)
    IN GroupPointsNearest(keys, coords, charges, pixel_spacing, i + 1,
         IF near # {}
         THEN [groups EXCEPT ![best] = Append(@, entry)]
         ELSE [k \in DOMAIN groups \cup {keys[i]} |->
                  IF k = keys[i] THEN <<entry>> ELSE groups[k]])

RECURSIVE GroupPoints(_, _, _, _, _, _)
\* lines 769-808: the points i.. are grouped by `keys` into a map from the
\* key of a group to its (coordinate, charge) pairs; a point joins the first
\* group, in key order, whose key is within the tolerance
GroupPoints(keys, coords, charges, pixel_spacing, i, groups) ==
    IF i > Len(charges) THEN groups
    ELSE IF charges[i] <= 0
    THEN GroupPoints(keys, coords, charges, pixel_spacing, i + 1, groups)
    ELSE
    LET near  == {k \in DOMAIN groups : 10 * Fix(Abs(k - keys[i])) < pixel_spacing}
        entry == <<coords[i], charges[i]>>
        first == CHOOSE k \in near : \A j \in near : k <= j
    IN GroupPoints(keys, coords, charges, pixel_spacing, i + 1,
         IF near # {}
         THEN [groups EXCEPT ![first] = Append(@, entry)]
         ELSE [k \in DOMAIN groups \cup {keys[i]} |->
                  IF k = keys[i] THEN <<entry>> ELSE groups[k]])

\* a choice of the closest group whatever its size
BestKeyAnySize(groups, estimate) ==
    IF DOMAIN groups = {} THEN estimate
    ELSE CHOOSE k \in DOMAIN groups :
           \A j \in DOMAIN groups :
              \/ Abs(k - estimate) < Abs(j - estimate)
              \/ (Abs(k - estimate) = Abs(j - estimate) /\ k <= j)

\* lines 810-829: the key of the group of at least 5 points closest to the
\* estimate, the lowest key on a tie; the estimate itself when there is none
BestKey(groups, estimate) ==
    LET ok == {k \in DOMAIN groups : Len(groups[k]) >= MinPoints}
    IN IF ok = {} THEN estimate
       ELSE CHOOSE k \in ok :
              \A j \in ok : \/ Abs(k - estimate) < Abs(j - estimate)
                            \/ (Abs(k - estimate) = Abs(j - estimate) /\ k <= j)

\* one 1-D fit a 2-D call makes
Line(name, pairs, center_estimate, pixel_spacing) ==
    [name |-> name,
     x_vals |-> Column(SortPairs(pairs), 1),
     y_vals |-> Column(SortPairs(pairs), 2),
     center_estimate |-> center_estimate, pixel_spacing |-> pixel_spacing]

\* lines 834-869 and 871-906: the group of key `best` is fitted when it
\* exists and has at least 5 points
CentralLine(name, groups, best, center_estimate, pixel_spacing) ==
    IF best \in DOMAIN groups /\ Len(groups[best]) >= MinPoints
    THEN <<Line(name, groups[best], Fix(center_estimate), pixel_spacing)>>
    ELSE <<>>

\* lines 810-829: the row and the column closest to the center estimates
CentralLines(rows_data, cols_data, center_x_estimate, center_y_estimate, pixel_spacing) ==
    CentralLine("x", rows_data, BestKey(rows_data, center_y_estimate),
                center_x_estimate, pixel_spacing)
    \o
    CentralLine("y", cols_data, BestKey(cols_data, center_x_estimate),
                center_y_estimate, pixel_spacing)

\* lines 769-906: the central row and the central column, each fitted when
\* it has at least 5 points
Lines2D(x_coords, y_coords, charge_values, center_x_estimate, center_y_estimate, pixel_spacing) ==
    CentralLines(
        GroupPoints(y_coords, x_coords, charge_values, pixel_spacing, 1, <<>>),
        GroupPoints(x_coords, y_coords, charge_values, pixel_spacing, 1, <<>>),
        center_x_estimate, center_y_estimate, pixel_spacing)

RECURSIVE KeepInliers(_, _, _, _, _, _)
\* lines 1027-1034
KeepInliers(x_coords, y_coords, charge_values, is_outlier, i, kept) ==
    IF i > Len(charge_values) THEN kept
    ELSE KeepInliers(x_coords, y_coords, charge_values, is_outlier, i + 1,
           IF is_outlier[i] THEN kept
           ELSE Append(kept, <<x_coords[i], y_coords[i], charge_values[i]>>))

\* the input returned unfiltered
Unfiltered(x_coords, y_coords, charge_values, success) ==
    [filtered_x_coords |-> x_coords, filtered_y_coords |-> y_coords,
     filtered_charge_values |-> charge_values, outliers_removed |-> 0,
     filtering_applied |-> FALSE, success |-> success]

\* a removal without the floor of lines 1010-1025
RemoveMarkedNoFloor(x_coords, y_coords, charge_values, is_outlier, kept) ==
    [filtered_x_coords |-> Column(kept, 1),
     filtered_y_coords |-> Column(kept, 2),
     filtered_charge_values |-> Column(kept, 3),
     outliers_removed |-> Cardinality({i \in 1..Len(charge_values) : is_outlier[i]}),
     filtering_applied |-> TRUE, success |-> TRUE]

\* lines 1010-1043: is_outlier marks the points to remove
RemoveMarked(x_coords, y_coords, charge_values, is_outlier, kept) ==
    LET n == Len(charge_values)
        outlier_count == Cardinality({i \in 1..n : is_outlier[i]})
    IN IF n - outlier_count < MinPoints
       THEN Unfiltered(x_coords, y_coords, charge_values, TRUE)
       ELSE [filtered_x_coords |-> Column(kept, 1),
             filtered_y_coords |-> Column(kept, 2),
             filtered_charge_values |-> Column(kept, 3),
             outliers_removed |-> outlier_count,
             filtering_applied |-> TRUE, success |-> TRUE]

\* lines 983-1008: deviation > sigma_threshold * mad
MarkOutliers(x_coords, y_coords, charge_values, stats, k10) ==
    IF ~stats.valid THEN Unfiltered(x_coords, y_coords, charge_values, FALSE)
    ELSE RemoveMarked(x_coords, y_coords, charge_values,
           [i \in 1..Len(charge_values) |-> ~InBand(stats, k10, charge_values[i])],
           KeepInliers(x_coords, y_coords, charge_values,
             [i \in 1..Len(charge_values) |-> ~InBand(stats, k10, charge_values[i])],
             1, <<>>))

\* lines 945-1046; sigma_threshold is k10, in tenths
RemovePowerLorentzianOutliers(x_coords, y_coords, charge_values, enable_outlier_removal, k10) ==
    IF Len(x_coords) # Len(y_coords) \/ Len(x_coords) # Len(charge_values)
    THEN [filtered_x_coords |-> <<>>, filtered_y_coords |-> <<>>,
          filtered_charge_values |-> <<>>, outliers_removed |-> Unwritten,
          filtering_applied |-> FALSE, success |-> FALSE]
    ELSE IF ~enable_outlier_removal
    THEN Unfiltered(x_coords, y_coords, charge_values, TRUE)
    ELSE IF Len(charge_values) < MinPoints
    THEN Unfiltered(x_coords, y_coords, charge_values, TRUE)
    ELSE MarkOutliers(x_coords, y_coords, charge_values,
           CalculateRobustStatisticsPowerLorentzian(x_coords, charge_values), k10)

RECURSIVE DiagonalPairs(_, _, _, _, _, _, _, _, _)
\* lines 1104-1135: the (diagonal coordinate, charge) pairs of the points
\* i.. that lie on the diagonal dx = sign * dy
DiagonalPairs(x_coords, y_coords, charge_values, center_x_estimate, center_y_estimate, pixel_spacing, sign, i, pairs) ==
    IF i > Len(x_coords) THEN pairs
    ELSE
    LET dx == x_coords[i] - center_x_estimate
        dy == y_coords[i] - center_y_estimate
    IN DiagonalPairs(x_coords, y_coords, charge_values, center_x_estimate,
                     center_y_estimate, pixel_spacing, sign, i + 1,
         IF charge_values[i] > 0 /\ 2 * Fix(Abs(dx - sign * dy)) < pixel_spacing
         THEN Append(pairs, <<(dx + sign * dy) \div 2, charge_values[i]>>)
         ELSE pairs)

\* lines 1137-1239: a diagonal of at least 5 points is fitted twice
DiagonalFits(names, pairs, diag_pixel_spacing) ==
    IF Len(pairs) >= MinPoints
    THEN [k \in 1..2 |-> Line(names[k], pairs, 0, diag_pixel_spacing)]
    ELSE <<>>

\* lines 1085-1099: the points the diagonals are taken from
FilteredPoints(x_coords, y_coords, charge_values, enable_outlier_filtering, filter_result) ==
    IF enable_outlier_filtering /\ filter_result.success
       /\ filter_result.filtering_applied
    THEN [x |-> filter_result.filtered_x_coords,
          y |-> filter_result.filtered_y_coords,
          charge |-> filter_result.filtered_charge_values]
    ELSE [x |-> x_coords, y |-> y_coords, charge |-> charge_values]

\* lines 1101-1239: the four diagonal fits, each made when its diagonal has
\* at least 5 points
LinesOfDiagonals(points, center_x_estimate, center_y_estimate, pixel_spacing) ==
    DiagonalFits(<<"main_diag_x", "main_diag_y">>,
                 DiagonalPairs(points.x, points.y, points.charge,
                               center_x_estimate, center_y_estimate,
                               pixel_spacing, 1, 1, <<>>),
                 (pixel_spacing * Sqrt2E4) \div E4)
    \o
    DiagonalFits(<<"sec_diag_x", "sec_diag_y">>,
                 DiagonalPairs(points.x, points.y, points.charge,
                               center_x_estimate, center_y_estimate,
                               pixel_spacing, 0 - 1, 1, <<>>),
                 (pixel_spacing * Sqrt2E4) \div E4)

\* lines 1085-1239
LinesDiagonal(x_coords, y_coords, charge_values, center_x_estimate, center_y_estimate, pixel_spacing, enable_outlier_filtering) ==
    LinesOfDiagonals(
        FilteredPoints(x_coords, y_coords, charge_values, enable_outlier_filtering,
            RemovePowerLorentzianOutliers(x_coords, y_coords, charge_values,
                                          TRUE, 25)),
        center_x_estimate, center_y_estimate, pixel_spacing)

LineNames(fn) ==
    IF fn = "Fit2DPowerLorentzianCeres" THEN {"x", "y"}
    ELSE {"main_diag_x", "main_diag_y", "sec_diag_x", "sec_diag_y"}

\* the frame of a call that waits at its lock_guard (lines 743-746, 1059-1062)
Entered(fn, x_coords, y_coords, charge_values, center_x_estimate, center_y_estimate, pixel_spacing, enable_outlier_filtering) ==
    [fn |-> fn, pc |-> "lock",
     x_coords |-> x_coords, y_coords |-> y_coords,
     charge_values |-> charge_values,
     center_x_estimate |-> center_x_estimate,
     center_y_estimate |-> center_y_estimate,
     pixel_spacing |-> pixel_spacing,
     enable_outlier_filtering |-> enable_outlier_filtering,
     rows_data |-> <<>>, cols_data |-> <<>>,
     best_row_y |-> center_y_estimate, best_col_x |-> center_x_estimate,
     grouped |-> FALSE, remover_called |-> FALSE, returned |-> <<>>,
     lines |-> <<>>, line_idx |-> 0,
     result |-> [fit_successful |-> FALSE,
                 line |-> [name \in LineNames(fn) |-> NoLineResult]]]

\* a return whose overall flag is set by any successful fit
FinishAnyLine(c) ==
    [c EXCEPT !.pc = "done",
              !.result.fit_successful =
                  \E name \in DOMAIN c.result.line : c.result.line[name].fit_successful]

\* lines 908-941 and 1241-1253: the overall flag is set, the call returns and
\* its lock_guard releases the mutex
Finish(c) ==
    LET line == c.result.line
        uncertainty(name) ==
            IF ~ENABLE_VERTICAL_CHARGE_UNCERTAINTIES THEN 0
            ELSE IF line[name].fit_successful
                 THEN Fix(StdMax(0, MaxOf(line[name].charge_values))) \div 20
                 ELSE line[name].charge_uncertainty
        final == IF c.fn = "Fit2DPowerLorentzianCeres"
                 THEN [name \in DOMAIN line |->
                         [line[name] EXCEPT !.charge_uncertainty = uncertainty(name)]]
                 ELSE line
    IN [c EXCEPT !.pc = "done",
                 !.result = [fit_successful |->
                                \A name \in DOMAIN line : line[name].fit_successful,
                             line |-> final]]

\* lines 855-868 and their likes: a 1-D fit returned into the result
LineFitted(c, k, f) ==
    LET name == c.lines[k].name
        chi2 == f.out.chi2_reduced
        n    == Len(c.lines[k].x_vals)
        \* the number of points of the dataset the accepted attempt fitted
        fitted == IF f.ret THEN Len(f.datasets[f.dataset_idx].x) ELSE 0
    IN [c EXCEPT !.returned = Append(@, <<name, f.ret, fitted>>),
                 !.result.line[name] =
          [fit_successful |-> f.ret,
           out |-> f.out,
           dof |-> IF n - 5 > 1 THEN n - 5 ELSE 1,
           pp  |-> IF chi2 = Unwritten THEN Unwritten
                   ELSE IF chi2 > 0 THEN E4 - StdMin(E4, chi2 \div 10) ELSE 0,
           pixel_coords |-> IF c.fn = "Fit2DPowerLorentzianCeres"
                            THEN c.lines[k].x_vals ELSE <<>>,
           charge_values |-> IF c.fn = "Fit2DPowerLorentzianCeres"
                             THEN c.lines[k].y_vals ELSE <<>>,
           charge_uncertainty |-> @.charge_uncertainty]]

RECURSIVE RunLines(_, _)
RECURSIVE LineEntered(_, _, _)
\* the 1-D fit of line k was entered and left the frame f: it is inside the
\* solver, or it has returned and the call goes on
LineEntered(c, k, f) ==
    IF f.pc = "ret" THEN RunLines(LineFitted(c, k, f), k + 1)
    ELSE [call |-> [c EXCEPT !.pc = "fit", !.line_idx = k], fit |-> f]

\* the call makes its fits from line k on, up to the first ceres::Solve or to
\* its return
RunLines(c, k) ==
    IF k > Len(c.lines) THEN [call |-> Finish(c), fit |-> FitIdle]
    ELSE LineEntered(c, k,
           StartFit(c.result.line[c.lines[k].name].out,
                    c.lines[k].x_vals, c.lines[k].y_vals,
                    c.lines[k].center_estimate, c.lines[k].pixel_spacing,
                    c.enable_outlier_filtering))

\* lines 769-829: the rows and the columns of the call and the keys of its
\* central row and column
Grouped(c, rows_data, cols_data) ==
    [c EXCEPT !.grouped = TRUE,
              !.rows_data = rows_data, !.cols_data = cols_data,
              !.best_row_y = BestKey(rows_data, c.center_y_estimate),
              !.best_col_x = BestKey(cols_data, c.center_x_estimate)]

\* lines 769-906 and 1085-1239: the 1-D fits the call has to make
Prepared(c) ==
    IF c.fn = "Fit2DPowerLorentzianCeres"
    THEN [Grouped(c, GroupPoints(c.y_coords, c.x_coords, c.charge_values,
                                 c.pixel_spacing, 1, <<>>),
                     GroupPoints(c.x_coords, c.y_coords, c.charge_values,
                                 c.pixel_spacing, 1, <<>>))
            EXCEPT !.lines = Lines2D(c.x_coords, c.y_coords, c.charge_values,
                                     c.center_x_estimate, c.center_y_estimate,
                                     c.pixel_spacing)]
    ELSE [c EXCEPT !.remover_called = c.enable_outlier_filtering,
                   !.lines = LinesDiagonal(c.x_coords, c.y_coords, c.charge_values,
                                 c.center_x_estimate, c.center_y_estimate,
                                 c.pixel_spacing, c.enable_outlier_filtering)]

\* an entry without the minimum size of lines 758-763 and 1074-1079
LockedUnchecked(c) ==
    IF \/ Len(c.x_coords) # Len(c.y_coords)
       \/ Len(c.x_coords) # Len(c.charge_values)
    THEN [call |-> [c EXCEPT !.pc = "done"], fit |-> FitIdle]
    ELSE RunLines(Prepared(c), 1)

\* lines 748-767 and 1064-1083, then the fits: the call holds the mutex
Locked(c) ==
    IF \/ Len(c.x_coords) # Len(c.y_coords)
       \/ Len(c.x_coords) # Len(c.charge_values)
       \/ Len(c.x_coords) < MinPoints
    THEN [call |-> [c EXCEPT !.pc = "done"], fit |-> FitIdle]
    ELSE RunLines(Prepared(c), 1)

\* a call that keeps the mutex when it returns
ResumedHoldingMutex(t, r) ==
    /\ fit' = [fit EXCEPT ![t] = r.fit]
    /\ call' = [call EXCEPT ![t] = r.call]
    /\ mutex' = t

\* thread t goes on with the frames r of its 2-D call; a call that returned
\* has released the mutex
Resumed(t, r) ==
    /\ fit' = [fit EXCEPT ![t] = r.fit]
    /\ call' = [call EXCEPT ![t] = r.call]
    /\ mutex' = IF r.call.pc = "done" THEN 0 ELSE t

\* the solver returned into the frame f of thread t: a direct call of
\* FitPowerLorentzianCeres goes on alone; inside a 2-D call a 1-D fit that
\* returned lets the 2-D call go on, to its next ceres::Solve or to its return
Resume(t, f) ==
    IF call[t].fn \in {"none", "FitPowerLorentzianCeres"} \/ f.pc # "ret"
    THEN /\ fit' = [fit EXCEPT ![t] = f]
         /\ UNCHANGED <<mutex, call>>
    ELSE \E r \in {RunLines(LineFitted(call[t], call[t].line_idx, f),
                             call[t].line_idx + 1)} : Resumed(t, r)

-----------------------------------------------------------------------------
(* The threads *)

\* a caller invokes FitPowerLorentzianCeres on a profile; the function takes
\* no lock
CallFitPowerLorentzianCeres(t) ==
    /\ t \in Callers(scope)
    /\ call[t].fn = "none"
    /\ \E ys \in FitProfiles, enable \in BOOLEAN :
         \E m \in {Len(ys), Len(ys) - 1} :
            /\ scope = "threads" => (m = Len(ys) /\ ~enable
                                     /\ ys = <<0, 3, 3, 3, 0>>)
            /\ fit' = [fit EXCEPT ![t] =
                         StartFit(NoOutputs, Positions(m), ys, Fix(3), E4, enable)]
    /\ call' = [call EXCEPT ![t] = [fn |-> "FitPowerLorentzianCeres"]]
    /\ UNCHANGED <<mutex, scope, profile_vars>>

\* a caller invokes one of the 2-D entry points on a point cloud, with all
\* charges or with the last charge missing; the call comes to its lock_guard
CallFit2D(t, fn) ==
    /\ t \in Callers(scope)
    /\ call[t].fn = "none"
    /\ \E r \in Requests2D(scope, fn) :
         LET n == Len(r.cloud.points)
         IN call' = [call EXCEPT ![t] =
                       Entered(fn, Column(r.cloud.points, 1),
                               Column(r.cloud.points, 2),
                               SubSeq(Column(r.cloud.points, 3), 1, n - r.missing),
                               r.cloud.center_x_estimate, r.cloud.center_y_estimate,
                               r.pixel_spacing, r.enable)]
    /\ UNCHANGED <<mutex, fit, scope, profile_vars>>

\* std::lock_guard of thread t obtains the mutex; the call runs to its first
\* ceres::Solve, or returns and releases the mutex
LockAcquired(t) ==
    /\ call[t].fn \in {"Fit2DPowerLorentzianCeres", "FitDiagonalPowerLorentzianCeres"}
    /\ call[t].pc = "lock"
    /\ mutex = 0
    /\ \E r \in {Locked(call[t])} : Resumed(t, r)
    /\ UNCHANGED <<scope, profile_vars>>

\* the Stage-1 ceres::Solve of thread t returns
SolveStage1Returns(t) ==
    /\ fit[t].pc = "solve1"
    /\ \E o \in SolveOutcomes(scope, fit[t]) :
         \E f \in {AfterStage1(fit[t], o.summary, o.parameters)} : Resume(t, f)
    /\ UNCHANGED <<scope, profile_vars>>

\* the second ceres::Solve of thread t returns
SolveStage2Returns(t) ==
    /\ fit[t].pc = "solve2"
    /\ \E o \in SolveOutcomes(scope, fit[t]) :
         \E f \in {AfterStage2(fit[t], o.summary, o.parameters)} : Resume(t, f)
    /\ UNCHANGED <<scope, profile_vars>>

\* covariance.Compute of thread t returns
CovarianceReturns(t) ==
    /\ fit[t].pc = "cov"
    /\ \E cov \in CovarianceOutcomes(scope, fit[t]) :
         \E f \in {AfterCovariance(fit[t], cov)} : Resume(t, f)
    /\ UNCHANGED <<scope, profile_vars>>

\* the caller of a returned call takes its result
CallReturned(t) ==
    /\ \/ call[t].fn = "FitPowerLorentzianCeres" /\ fit[t].pc = "ret"
       \/ /\ call[t].fn \in {"Fit2DPowerLorentzianCeres",
                             "FitDiagonalPowerLorentzianCeres"}
          /\ call[t].pc = "done"
    /\ call' = [call EXCEPT ![t] = NoCall]
    /\ fit' = [fit EXCEPT ![t] = FitIdle]
    /\ UNCHANGED <<mutex, scope, profile_vars>>

-----------------------------------------------------------------------------
(* Specification of the pure functions: a profile is drawn, then one of   *)
(* the functions is applied to it.                                         *)

None == [x |-> <<>>, y |-> <<>>]

\* no statistics computed, no removal called
NoStatistics == [valid |-> FALSE]

NoRemoval == [k10 |-> 0]

Reversed(s) == [i \in 1..Len(s) |-> s[Len(s) + 1 - i]]

\* profiles with one charge far from the others
SkewedProfiles == {<<1, 1, 1, 2, 2, 2, 9>>}

InitProfile ==
    /\ op = "input"
    /\ \E n \in {0} \cup 3..MaxLen :
         /\ y_vals \in [1..n -> Charges] \cup {ys \in SkewedProfiles : Len(ys) = n}
         /\ \E m \in {n, n - 1} : x_vals = Positions(m)
    /\ sigma_threshold = 0
    /\ filtered = None
    /\ refiltered = None
    /\ statistics = NoStatistics
    /\ removal = NoRemoval
    /\ scope = "profile"
    /\ mutex = 0
    /\ call = [t \in Threads |-> NoCall]
    /\ fit = [t \in Threads |-> FitIdle]

ApplyFilter(k10) ==
    /\ op = "input"
    /\ op' = "filter"
    /\ sigma_threshold' = k10
    /\ filtered' = FilterPowerLorentzianOutliers(x_vals, y_vals, k10)
    /\ UNCHANGED <<x_vals, y_vals, refiltered, statistics, removal, scope,
                   thread_vars>>

ApplyFilterAgain ==
    /\ op = "filter"
    /\ op' = "refilter"
    /\ refiltered' = FilterPowerLorentzianOutliers(filtered.x, filtered.y,
                                                   sigma_threshold)
    /\ UNCHANGED <<x_vals, y_vals, sigma_threshold, filtered, statistics,
                   removal, scope, thread_vars>>

\* CalculateRobustStatisticsPowerLorentzian is applied to the profile
ApplyStatistics ==
    /\ op = "input"
    /\ op' = "statistics"
    /\ statistics' = CalculateRobustStatisticsPowerLorentzian(x_vals, y_vals)
    /\ UNCHANGED <<x_vals, y_vals, sigma_threshold, filtered, refiltered,
                   removal, scope, thread_vars>>

\* RemovePowerLorentzianOutliers is applied to the charges of the profile,
\* with the positions as one coordinate and the reversed positions as the other
ApplyRemove(k10, flip) ==
    /\ op = "input"
    /\ op' = "remove"
    /\ \E c \in {IF flip THEN <<Reversed(x_vals), x_vals>>
                         ELSE <<x_vals, Reversed(x_vals)>>} :
         removal' = [x_coords |-> c[1], y_coords |-> c[2], k10 |-> k10,
                     result |-> RemovePowerLorentzianOutliers(
                                    c[1], c[2], y_vals, TRUE, k10)]
    /\ UNCHANGED <<x_vals, y_vals, sigma_threshold, filtered, refiltered,
                   statistics, scope, thread_vars>>

\* FitPowerLorentzianCeres is called on the profile and runs up to its first
\* ceres::Solve, or to its early return
EnterFit(enable, pixel_spacing) ==
    /\ op = "input"
    /\ op' = "fit"
    /\ fit' = [fit EXCEPT ![1] =
                 StartFit(NoOutputs, x_vals, y_vals, Fix(3), pixel_spacing, enable)]
    /\ call' = [call EXCEPT ![1] = [fn |-> "FitPowerLorentzianCeres"]]
    /\ UNCHANGED <<x_vals, y_vals, sigma_threshold, filtered, refiltered,
                   statistics, removal, scope, mutex>>

NextProfile ==
    \/ \E k10 \in {5, 20, 25, 30, 40} : ApplyFilter(k10)
    \/ ApplyFilterAgain
    \/ ApplyStatistics
    \/ \E k10 \in {5, 25}, flip \in BOOLEAN : ApplyRemove(k10, flip)
    \/ \E enable \in BOOLEAN, pixel_spacing \in FitPixelSpacings :
          EnterFit(enable, pixel_spacing)

SpecProfile == InitProfile /\ [][NextProfile]_vars

-----------------------------------------------------------------------------
(* Specification of one call of FitPowerLorentzianCeres: one caller, every *)
(* profile of the bounds, every outcome of the solver.                     *)

NoProfile ==
    /\ op = "none"
    /\ x_vals = <<>>
    /\ y_vals = <<>>
    /\ sigma_threshold = 0
    /\ filtered = None
    /\ refiltered = None
    /\ statistics = NoStatistics
    /\ removal = NoRemoval

InitFit ==
    /\ NoProfile
    /\ scope = "fit"
    /\ mutex = 0
    /\ call = [t \in Threads |-> NoCall]
    /\ fit = [t \in Threads |-> FitIdle]

NextFit ==
    \E t \in Threads :
        \/ CallFitPowerLorentzianCeres(t)
        \/ SolveStage1Returns(t)
        \/ SolveStage2Returns(t)
        \/ CovarianceReturns(t)

SpecFit == InitFit /\ [][NextFit]_vars

-----------------------------------------------------------------------------
(* Specification of the concurrent callers: every thread calls any of the  *)
(* three fit functions, again and again.                                   *)

Init ==
    /\ NoProfile
    /\ scope = "threads"
    /\ mutex = 0
    /\ call = [t \in Threads |-> NoCall]
    /\ fit = [t \in Threads |-> FitIdle]

Next ==
    \E t \in Threads :
        \/ CallFitPowerLorentzianCeres(t)
        \/ CallFit2D(t, "Fit2DPowerLorentzianCeres")
        \/ CallFit2D(t, "FitDiagonalPowerLorentzianCeres")
        \/ LockAcquired(t)
        \/ SolveStage1Returns(t)
        \/ SolveStage2Returns(t)
        \/ CovarianceReturns(t)
        \/ CallReturned(t)

Spec == Init /\ [][Next]_vars

-----------------------------------------------------------------------------
(* Specification of one caller of the 2-D entry points: every point cloud  *)
(* of the bounds, each 1-D fit succeeding or failing.                      *)

Init2D ==
    /\ NoProfile
    /\ scope = "grid"
    /\ mutex = 0
    /\ call = [t \in Threads |-> NoCall]
    /\ fit = [t \in Threads |-> FitIdle]

Next2D ==
    \E t \in Threads :
        \/ CallFit2D(t, "Fit2DPowerLorentzianCeres")
        \/ CallFit2D(t, "FitDiagonalPowerLorentzianCeres")
        \/ LockAcquired(t)
        \/ SolveStage1Returns(t)
        \/ SolveStage2Returns(t)
        \/ CovarianceReturns(t)
        \/ CallReturned(t)

Spec2D == Init2D /\ [][Next2D]_vars

-----------------------------------------------------------------------------
(* Specification of the callers of the mutex: every thread makes one call  *)
(* of a 2-D entry point.  A thread that can take a step takes one in the   *)
(* end, ceres::Solve and covariance.Compute return, and a lock_guard that  *)
(* waits for a mutex that stays free obtains it.                           *)

InitCallers ==
    /\ NoProfile
    /\ scope = "callers"
    /\ mutex = 0
    /\ call = [t \in Threads |-> NoCall]
    /\ fit = [t \in Threads |-> FitIdle]

NextCallers ==
    \E t \in Threads :
        \/ CallFit2D(t, "Fit2DPowerLorentzianCeres")
        \/ CallFit2D(t, "FitDiagonalPowerLorentzianCeres")
        \/ LockAcquired(t)
        \/ SolveStage1Returns(t)
        \/ SolveStage2Returns(t)
        \/ CovarianceReturns(t)

\* the lock_guard of thread t waits and the mutex is free: the condition
\* under which LockAcquired(t) can happen
CanAcquire(t) ==
    /\ call[t].fn \in {"Fit2DPowerLorentzianCeres", "FitDiagonalPowerLorentzianCeres"}
    /\ call[t].pc = "lock"
    /\ mutex = 0

\* weak fairness of the four steps of a thread.  LockAcquired(t),
\* SolveStage2Returns(t) and CovarianceReturns(t) change the state whenever
\* they can happen, so their weak fairness is stated on their enabling
\* conditions: the condition does not hold for ever
FairCallers ==
    \A t \in Threads :
        /\ []<>(~CanAcquire(t))
        /\ WF_vars(SolveStage1Returns(t))
        /\ []<>(fit[t].pc # "solve2")
        /\ []<>(fit[t].pc # "cov")

SpecCallers == InitCallers /\ [][NextCallers]_vars /\ FairCallers

-----------------------------------------------------------------------------
(* Mutual exclusion of the solver *)

\* the thread is inside ceres::Solve or covariance.Compute
InSolver(t) == fit[t].pc \in {"solve1", "solve2", "cov"}

\* C1: every call of ceres::Solve and of the covariance computation is made
\* while the calling thread holds the mutex, so no two threads are inside the
\* solver at the same time, whichever of FitPowerLorentzianCeres,
\* Fit2DPowerLorentzianCeres and FitDiagonalPowerLorentzianCeres they called.
SolverCallsHoldMutex ==
    /\ \A t \in Threads : InSolver(t) => mutex = t
    /\ \A t1, t2 \in Threads : (InSolver(t1) /\ InSolver(t2)) => t1 = t2

-----------------------------------------------------------------------------
(* Properties of the outlier filter *)

\* the profile handed to ApplyFilter is a valid fit profile
ValidProfile == Len(x_vals) = Len(y_vals) /\ Len(y_vals) >= MinPoints

\* the indices of the profile whose charge lies in [median - k*mad, median + k*mad]
BandIndices(k10) ==
    LET stats == CalculateRobustStatisticsPowerLorentzian(x_vals, y_vals)
    IN {i \in 1..Len(y_vals) : InBand(stats, k10, y_vals[i])}

\* the thresholded set, after the retry with k = 4.0 when the first pass
\* leaves fewer than half of the points
ThresholdedIndices ==
    IF Cardinality(BandIndices(sigma_threshold)) < Len(y_vals) \div 2
    THEN BandIndices(40) ELSE BandIndices(sigma_threshold)

\* C9: for a profile of at least 5 equal-length points and every threshold the
\* filter returns at least 5 points, and it returns the profile unchanged when
\* the thresholded set has fewer than 5 points; fewer than 5 points come back
\* only for a profile that is itself shorter than 5 or of mismatched lengths.
FilterKeepsFivePoints ==
    op = "filter" =>
        /\ ValidProfile =>
             /\ Len(filtered.x) >= MinPoints
             /\ Len(filtered.y) = Len(filtered.x)
             /\ Cardinality(ThresholdedIndices) < MinPoints =>
                    filtered = [x |-> x_vals, y |-> y_vals]
        /\ Len(filtered.x) < MinPoints =>
             (Len(x_vals) # Len(y_vals) \/ Len(x_vals) < MinPoints)

\* a profile of at least 5 points whose thresholded set is too small was
\* filtered, and came back whole
FilterFloorActed ==
    /\ op = "filter"
    /\ ValidProfile
    /\ Cardinality(ThresholdedIndices) < MinPoints
    /\ Cardinality(ThresholdedIndices) < Len(y_vals)
    /\ filtered = [x |-> x_vals, y |-> y_vals]

\* C10: the filter applied to its own output with the same threshold removes
\* no further point: Filter(Filter(p, k), k) = Filter(p, k).
FilterIdempotent ==
    (op = "refilter" /\ ValidProfile) => refiltered = filtered

-----------------------------------------------------------------------------
(* Properties of the candidate dataset list and of the estimator.  EnterFit *)
(* leaves in fit[1] the frame of the call at its first ceres::Solve.        *)

\* a filtered variant of the profile, kept when it has at least 5 points
KeptVariant(k10) ==
    LET d == FilterPowerLorentzianOutliers(x_vals, y_vals, k10)
    IN IF Len(d.x) >= MinPoints THEN <<d>> ELSE <<>>

\* C7: the candidate dataset list is [original] when outlier filtering is
\* disabled and [filter(k=2.5), filter(k=3.0), original] in that order when it
\* is enabled, a filtered variant being present only with at least 5 points;
\* the original data is always the last entry.
DatasetListAsSpecified ==
    (op = "fit" /\ ValidProfile) =>
        LET f        == fit[1]
            original == [x |-> x_vals, y |-> y_vals]
        IN /\ f.datasets = IF f.enable_outlier_filtering
                           THEN KeptVariant(25) \o KeptVariant(30) \o <<original>>
                           ELSE <<original>>
           /\ f.datasets[Len(f.datasets)] = original

\* filtering was enabled on a profile from which the conservative filter
\* removed a point, and the list holds the three variants
ThreeVariantsListed ==
    /\ op = "fit" /\ ValidProfile
    /\ fit[1].enable_outlier_filtering
    /\ Len(fit[1].datasets) = 3
    /\ Len(fit[1].datasets[1].x) < Len(x_vals)
    /\ fit[1].datasets[1] # fit[1].datasets[2]
    /\ fit[1].datasets[3] = [x |-> x_vals, y |-> y_vals]

\* the tier the estimator has to select on a dataset: the first whose
\* acceptance condition holds
FirstAcceptableTier(clean, pixel_spacing) ==
    LET stats == CalculateRobustStatisticsPowerLorentzian(clean.x, clean.y)
        m1    == Method1(stats, clean.x, clean.y, pixel_spacing)
        m2    == Method2(stats, pixel_spacing)
        nan(e) == IsNaN(e.amplitude) \/ IsNaN(e.center) \/ IsNaN(e.gamma)
                  \/ IsNaN(e.beta) \/ IsNaN(e.baseline)
    IN IF m1.amplitude > 0 /\ m1.gamma > 0 /\ ~nan(m1) THEN 1
       ELSE IF m2.amplitude > 0 /\ m2.gamma > 0 THEN 2
       ELSE 3

\* the five parameter values of tier `tier` on a dataset
TierValues(clean, center_estimate, pixel_spacing, tier) ==
    LET stats == CalculateRobustStatisticsPowerLorentzian(clean.x, clean.y)
    IN IF tier = 1 THEN Method1(stats, clean.x, clean.y, pixel_spacing)
       ELSE IF tier = 2 THEN Method2(stats, pixel_spacing)
       ELSE Method3(stats, center_estimate, pixel_spacing)

\* C8: on every profile of at least 5 equal-length points the estimator
\* returns valid = true, method_used is the first of the tiers 1, 2, 3 whose
\* acceptance condition holds, and the values are those of that tier; the
\* orchestrator never takes its "estimation failed" branch.
EstimatorSelectsFirstValidTier ==
    (op = "fit" /\ ValidProfile) =>
        LET f == fit[1]
        IN /\ ~f.estimation_failed
           /\ f.pc = "solve1" /\ f.dataset_idx = 1
           /\ \A d \in 1..Len(f.datasets) :
                 LET clean == f.datasets[d]
                     e     == EstimatePowerLorentzianParameters(
                                 clean.x, clean.y, f.center_estimate, f.pixel_spacing)
                     tier  == FirstAcceptableTier(clean, f.pixel_spacing)
                     v     == TierValues(clean, f.center_estimate,
                                         f.pixel_spacing, tier)
                 IN /\ e.valid
                    /\ e.method_used = tier
                    /\ <<e.amplitude, e.center, e.gamma, e.beta, e.baseline>>
                         = <<v.amplitude, v.center, v.gamma, v.beta, v.baseline>>
                    /\ d = 1 => f.estimates = e

\* the call estimated a profile on which tier 1 fails and tier 2 holds
SecondTierSelected ==
    /\ op = "fit" /\ ValidProfile
    /\ fit[1].estimates.valid
    /\ fit[1].estimates.method_used = 2

-----------------------------------------------------------------------------
(* Properties of one call of FitPowerLorentzianCeres *)

\* the call was made with equal-length sequences of at least 5 points
ValidInput(f) == Len(f.x_vals) = Len(f.y_vals) /\ Len(f.x_vals) >= MinPoints

\* the (dataset, configuration) pairs of nd datasets in lexicographic order
LexPairs(nd) ==
    [k \in 1..(nd * NumConfigs) |->
        <<((k - 1) \div NumConfigs) + 1, ((k - 1) % NumConfigs) + 1>>]

AllFalse(log) == \A i \in 1..Len(log) : ~log[i]

\* the call has accepted an attempt
Accepted(f) == Len(f.verdicts) >= 1 /\ f.verdicts[Len(f.verdicts)]

\* C2: the (dataset variant, configuration) pairs are attempted in
\* lexicographic order; the call returns true with the result of the first
\* accepted pair and attempts no later pair; it returns false only after every
\* pair of every variant was attempted and rejected.
SearchIsGreedyLexicographic ==
    \A t \in Threads :
        LET f   == fit[t]
            all == LexPairs(Len(f.datasets))
            nt  == Len(f.tried)
            nv  == Len(f.verdicts)
        IN (f.pc # "idle" /\ ValidInput(f)) =>
             /\ nt >= 1 /\ nt <= Len(all)
             /\ f.tried = SubSeq(all, 1, nt)
             /\ f.tried[nt] = <<f.dataset_idx, f.config_idx>>
             /\ AllFalse(SubSeq(f.verdicts, 1, nv - 1))
             /\ f.pc \in {"solve1", "solve2"} =>
                    (nv = nt - 1 /\ AllFalse(f.verdicts))
             /\ f.pc = "cov" => (nv = nt /\ f.verdicts[nv])
             /\ (f.pc = "ret" /\ f.ret) =>
                    /\ nv = nt /\ f.verdicts[nv]
                    /\ <<f.out.fit_amplitude, f.out.fit_center, f.out.fit_gamma,
                          f.out.fit_beta, f.out.fit_vertical_offset>>
                         = <<f.last_solve[2][1], f.last_solve[2][2],
                             Abs(f.last_solve[2][3]), f.last_solve[2][4],
                             f.last_solve[2][5]>>
             /\ (f.pc = "ret" /\ ~f.ret) =>
                    (f.tried = all /\ nv = nt /\ AllFalse(f.verdicts))

\* a call returned true from its second dataset variant, after the five
\* configurations of the first were rejected
AcceptedInLaterVariant ==
    \E t \in Threads :
        /\ fit[t].pc = "ret" /\ fit[t].ret
        /\ fit[t].dataset_idx = 2
        /\ Len(fit[t].tried) > NumConfigs
        /\ fit[t].datasets[2] # fit[t].datasets[1]

\* the Stage-1 result lets Stage 2 run: convergence, amplitude > 0,
\* width > 0, no NaN
Stage1Passed(termination_type, p) ==
    /\ termination_type \in {"CONVERGENCE", "USER_SUCCESS"}
    /\ \A i \in 1..5 : p[i] # NaN
    /\ p[1] > 0 /\ p[3] > 0

\* C3: every attempt runs the solver exactly twice on the same problem: Stage
\* 1 with exponent bounds [0.9, 1.1]; then, iff Stage 1 converged with
\* amplitude > 0, width > 0 and no NaN, Stage 2 with exponent bounds [0.2, 4.0]
\* and center bounds Stage-1 center +- 0.5 pixel spacing, from the Stage-1
\* parameters; otherwise a fallback solve with exponent bounds [0.2, 4.0] and
\* the center bounds of the estimate +- 3 pixel spacings.
TwoStageSolve ==
    \A t \in Threads :
        LET f    == fit[t]
            nt   == Len(f.tried)
            pair == <<f.dataset_idx, f.config_idx>>
            at(r) == <<r.dataset_idx, r.config_idx>>
            wide_lower == f.estimates.center - 3 * f.pixel_spacing
            wide_upper == f.estimates.center + 3 * f.pixel_spacing
        IN /\ f.pc = "solve1" =>
                /\ Len(f.solves) = 1 /\ f.n_solves = 2 * nt - 1
                /\ f.solves[1].stage = "stage1" /\ at(f.solves[1]) = pair
                /\ f.solves[1].beta_lower = 9000 /\ f.solves[1].beta_upper = 11000
                /\ f.solves[1].center_lower = wide_lower
                /\ f.solves[1].center_upper = wide_upper
           /\ f.pc = "solve2" =>
                /\ Len(f.solves) = 2 /\ f.n_solves = 2 * nt
                /\ f.solves[1].stage = "stage1" /\ at(f.solves[1]) = pair
                /\ f.solves[1].beta_lower = 9000 /\ f.solves[1].beta_upper = 11000
                /\ at(f.solves[2]) = pair
                /\ f.solves[2].beta_lower = 2000 /\ f.solves[2].beta_upper = 40000
                /\ f.parameters = f.stage1_parameters
                /\ IF Stage1Passed(f.stage1_termination, f.stage1_parameters)
                   THEN /\ f.solves[2].stage = "stage2"
                        /\ f.solves[2].center_lower
                             = f.stage1_parameters[2] - (f.pixel_spacing \div 2)
                        /\ f.solves[2].center_upper
                             = f.stage1_parameters[2] + (f.pixel_spacing \div 2)
                   ELSE /\ f.solves[2].stage = "fallback"
                        /\ f.solves[2].center_lower = wide_lower
                        /\ f.solves[2].center_upper = wide_upper
           /\ (f.pc \in {"cov", "ret"} /\ ValidInput(f)) => f.n_solves = 2 * nt

\* a call is inside Stage 2 with the center bounds moved to a Stage-1 center
\* that differs from the estimate
Stage2CenterTightened ==
    \E t \in Threads :
        /\ fit[t].pc = "solve2"
        /\ fit[t].solves[2].stage = "stage2"
        /\ fit[t].stage1_parameters[2] # fit[t].estimates.center
        /\ fit[t].solves[2].center_upper - fit[t].solves[2].center_lower
             = 2 * (fit[t].pixel_spacing \div 2)

\* the acceptance condition on the termination type and the parameters the
\* last solve of an attempt left
AcceptanceCondition(termination_type, p) ==
    /\ termination_type \in {"CONVERGENCE", "USER_SUCCESS"}
    /\ \A i \in 1..5 : p[i] # NaN
    /\ p[1] > 0 /\ p[3] > 0
    /\ p[4] > E4 \div 10 /\ p[4] < 5 * E4

\* C4: an attempt is accepted iff its last solve terminated with convergence
\* and left amplitude > 0, width > 0, 0.1 < exponent < 5.0 and no NaN; so a
\* call that returns true returns fit_amplitude > 0, fit_gamma > 0 and
\* 0.1 < fit_beta < 5.0.
AcceptedIffConvergedInRange ==
    \A t \in Threads :
        LET f == fit[t]
        IN /\ f.last_solve # <<>> =>
                /\ Len(f.verdicts) >= 1
                /\ f.verdicts[Len(f.verdicts)]
                     <=> AcceptanceCondition(f.last_solve[1], f.last_solve[2])
           /\ (f.pc = "ret" /\ f.ret) =>
                /\ f.last_solve # <<>>
                /\ f.out.fit_amplitude \notin {NaN, Unwritten}
                /\ f.out.fit_gamma \notin {NaN, Unwritten}
                /\ f.out.fit_beta \notin {NaN, Unwritten}
                /\ f.out.fit_amplitude > 0 /\ f.out.fit_gamma > 0
                /\ f.out.fit_beta > E4 \div 10 /\ f.out.fit_beta < 5 * E4

\* a converged attempt whose exponent lies on the limit 5.0 was rejected and
\* the call went on to the next attempt
ExponentOnLimitRejected ==
    \E t \in Threads :
        /\ fit[t].pc = "solve1"
        /\ fit[t].last_solve # <<>>
        /\ fit[t].last_solve[1] = "CONVERGENCE"
        /\ fit[t].last_solve[2][4] = 5 * E4
        /\ ~fit[t].verdicts[Len(fit[t].verdicts)]

\* C5: a call with sequences of different lengths, or with fewer than 5
\* points, returns false without running the estimator, the filter or the
\* solver and leaves the eleven outputs unchanged.
InvalidInputReturnsFalseUntouched ==
    \A t \in Threads :
        LET f == fit[t]
        IN (f.pc # "idle" /\ ~ValidInput(f)) =>
             /\ f.pc = "ret" /\ ~f.ret
             /\ f.out = NoOutputs
             /\ f.datasets = <<>>
             /\ f.estimates = NoEstimates /\ ~f.estimation_failed
             /\ f.tried = <<>> /\ f.solves = <<>>
             /\ f.n_solves = 0 /\ f.n_cov = 0

\* a call with 5 positions and 6 charges has returned
MismatchedCallReturned ==
    \E t \in Threads :
        /\ fit[t].pc = "ret"
        /\ Len(fit[t].x_vals) = MinPoints
        /\ Len(fit[t].y_vals) = MinPoints + 1

\* the sanity check of the standard errors
SaneErrors(f) ==
    /\ \A e \in {f.out.fit_amplitude_err, f.out.fit_center_err, f.out.fit_gamma_err,
                  f.out.fit_beta_err, f.out.fit_vertical_offset_err} :
          e \notin {NaN, Unwritten}
    /\ f.out.fit_amplitude_err < 10 * f.out.fit_amplitude
    /\ f.out.fit_center_err < 5 * f.pixel_spacing

\* C6: after an attempt is accepted the four covariance configurations are
\* tried in order and the first whose standard errors pass the sanity check
\* supplies the errors; if all four fail the heuristic errors are written.
\* The accepted fit is returned as success with the five errors written:
\* a covariance failure neither fails the fit nor continues the search.
CovarianceNeverFailsFit ==
    \A t \in Threads :
        LET f  == fit[t]
            nc == Len(f.cov_log)
        IN /\ Accepted(f) =>
                /\ f.pc \in {"cov", "ret"}
                /\ Len(f.tried) = Len(f.verdicts)
                /\ f.tried[Len(f.tried)] = <<f.dataset_idx, f.config_idx>>
                /\ f.n_solves = 2 * Len(f.tried)
           /\ f.pc = "cov" =>
                /\ Accepted(f)
                /\ f.cov_idx \in 1..NumCovConfigs
                /\ f.n_cov = f.cov_idx /\ nc = f.cov_idx - 1
                /\ AllFalse(f.cov_log) /\ ~f.cov_success
           /\ (f.pc = "ret" /\ Accepted(f)) =>
                /\ f.ret
                /\ f.n_cov = nc /\ nc \in 1..NumCovConfigs
                /\ AllFalse(SubSeq(f.cov_log, 1, nc - 1))
                /\ \A e \in {f.out.fit_amplitude_err, f.out.fit_center_err,
                              f.out.fit_gamma_err, f.out.fit_beta_err,
                              f.out.fit_vertical_offset_err} :
                      e \notin {NaN, Unwritten}
                /\ IF f.cov_log[nc]
                   THEN f.cov_success /\ SaneErrors(f)
                   ELSE /\ ~f.cov_success /\ nc = NumCovConfigs
                        /\ f.out = [FallbackErrors(f) EXCEPT
                                      !.chi2_reduced = f.out.chi2_reduced]

\* a call returned true with the heuristic errors, after a covariance
\* configuration had written errors that failed the sanity check
HeuristicErrorsReturned ==
    \E t \in Threads :
        /\ fit[t].pc = "ret" /\ fit[t].ret
        /\ ~fit[t].cov_success
        /\ Len(fit[t].cov_log) = NumCovConfigs
        /\ fit[t].out.fit_center_err # NaN


-----------------------------------------------------------------------------
(* Properties of the robust statistics and of the two outlier removers *)

\* the elements of s at the indices idx, in the order of s
Restrict(s, idx) ==
    LET nth(j) == CHOOSE i \in idx : Cardinality({m \in idx : m < i}) = j - 1
    IN [j \in 1..Cardinality(idx) |-> s[nth(j)]]

\* the indices of the charges with |charge - median| > k * MAD
OutlierIndices(k10) ==
    LET s == CalculateRobustStatisticsPowerLorentzian(Positions(Len(y_vals)), y_vals)
    IN {i \in 1..Len(y_vals) : ~InBand(s, k10, y_vals[i])}

\* C11: RemovePowerLorentzianOutliers with removal enabled on n >= 5
\* equal-length triples, c being the number of charges with
\* |charge - median| > k * MAD: if c > n - 5 it returns the input triples
\* unchanged with filtering_applied = false and outliers_removed = 0;
\* otherwise it returns exactly the n - c non-outlier triples in input order
\* with outliers_removed = c and filtering_applied = true.  The coordinates
\* have no part in the choice.
RemoverKeepsNonOutliers ==
    (op = "remove" /\ ValidProfile) =>
        LET r    == removal.result
            n    == Len(y_vals)
            out  == OutlierIndices(removal.k10)
            c    == Cardinality(out)
            keep == (1..n) \ out
        IN /\ r.success
           /\ IF c > n - MinPoints
              THEN /\ r.filtered_x_coords = removal.x_coords
                   /\ r.filtered_y_coords = removal.y_coords
                   /\ r.filtered_charge_values = y_vals
                   /\ ~r.filtering_applied
                   /\ r.outliers_removed = 0
              ELSE /\ r.filtered_x_coords = Restrict(removal.x_coords, keep)
                   /\ r.filtered_y_coords = Restrict(removal.y_coords, keep)
                   /\ r.filtered_charge_values = Restrict(y_vals, keep)
                   /\ Len(r.filtered_charge_values) = n - c
                   /\ r.filtering_applied
                   /\ r.outliers_removed = c

\* the remover took two outliers out of the middle of seven triples
OutliersRemovedInOrder ==
    /\ op = "remove" /\ ValidProfile
    /\ removal.result.filtering_applied
    /\ removal.result.outliers_removed = 2
    /\ Len(removal.result.filtered_charge_values) = MinPoints
    /\ {1, Len(y_vals)} \cap OutlierIndices(removal.k10) = {}
    /\ removal.x_coords # removal.y_coords

\* stats.mad >= 1e-12: the scaled MAD when it is positive, the standard
\* deviation when that is positive, else 1e-12 itself
MadAtLeastFloor(s) ==
    CASE s.mad_kind = "mad"     -> s.dev2 > 0 /\ s.mad > 0
      [] s.mad_kind = "std_dev" -> s.var_n2 > 0 /\ s.mad > 0
      [] s.mad_kind = "floor"   -> TRUE
      [] OTHER                  -> FALSE

\* C12: CalculateRobustStatisticsPowerLorentzian returns valid = false exactly
\* when the two sequences differ in length or are empty; for every other
\* input it returns valid = true with mad >= 1e-12, a scaled MAD below 1e-12
\* being replaced by the standard deviation if that is above 1e-12, else by
\* 1e-12, so a profile of equal charges still gets a non-zero scale.
StatisticsValidWithFlooredMad ==
    op = "statistics" =>
        /\ statistics.valid <=> ~(Len(x_vals) # Len(y_vals) \/ Len(y_vals) = 0)
        /\ statistics.valid =>
             /\ MadAtLeastFloor(statistics)
             /\ statistics.mad_kind = "mad" <=> statistics.dev2 > 0
             /\ statistics.mad_kind = "std_dev" =>
                    statistics.mad = statistics.std_dev
             /\ statistics.mad_kind = "floor" =>
                    \A i \in 1..Len(y_vals) : y_vals[i] = y_vals[1]

\* the statistics of a profile of five or more equal charges were computed
\* and its MAD is the floor
EqualChargesGetFloor ==
    /\ op = "statistics" /\ ValidProfile
    /\ statistics.valid
    /\ statistics.dev2 = 0 /\ statistics.var_n2 = 0
    /\ statistics.mad_kind = "floor"

\* C19: in FilterPowerLorentzianOutliers, whenever the first pass with the
\* caller's threshold k removes more than half of the n input points
\* (removed > n/2) the pass is redone with k = 4.0 and the result of that
\* second pass replaces the first; when it removes at most half there is no
\* retry.
FilterRetriesWhenMajorityRemoved ==
    (op = "filter" /\ ValidProfile) =>
        LET n       == Len(y_vals)
            first   == BandIndices(sigma_threshold)
            removed == n - Cardinality(first)
            pass    == IF 2 * removed > n THEN BandIndices(40) ELSE first
        IN filtered = IF Cardinality(pass) < MinPoints
                      THEN [x |-> x_vals, y |-> y_vals]
                      ELSE [x |-> Restrict(x_vals, pass),
                            y |-> Restrict(y_vals, pass)]

\* C20: the MAD computed by CalculateRobustStatisticsPowerLorentzian, before
\* its floor, is 1.4826 * median(|value - median|), both medians being the
\* middle element of the sorted values or, for an even number of values, the
\* average of the two middle elements.
MadIsScaledMedianDeviation ==
    (op = "statistics" /\ statistics.valid) =>
        \* statistics.dev2 and the deviations are doubled, Median2 doubles again
        2 * statistics.dev2 * MadFactorE4
            = Median2(AbsDeviations2(y_vals, statistics.median2)) * MadFactorE4


-----------------------------------------------------------------------------
(* The reduced chi-square of a successful fit *)

\* C17: for every successful fit chi2_reduced is 2 * the final cost of the
\* last solve of the accepted attempt divided by max(1, n - 5), n being the
\* number of points of the dataset variant that produced the accepted fit;
\* it is non-negative whenever that final cost is non-negative.
ChiSquareOverDegreesOfFreedom ==
    \A t \in Threads :
        LET f    == fit[t]
            n    == Len(f.datasets[f.dataset_idx].x)
            dof  == IF n - 5 >= 1 THEN n - 5 ELSE 1
            cost == f.last_solve[3]
        IN (f.pc = "ret" /\ f.ret) =>
             /\ f.out.chi2_reduced # Unwritten
             /\ f.out.chi2_reduced = (2 * cost) \div dof
             /\ cost >= 0 => f.out.chi2_reduced >= 0

\* a call on 8 points returned true from a filtered variant of 7 points,
\* with the chi-square halved
FilteredVariantHalvesChiSquare ==
    \E t \in Threads :
        /\ fit[t].pc = "ret" /\ fit[t].ret
        /\ Len(fit[t].x_vals) = 8
        /\ Len(fit[t].datasets[fit[t].dataset_idx].x) = 7
        /\ fit[t].last_solve[3] > 0
        /\ fit[t].out.chi2_reduced = fit[t].last_solve[3]


-----------------------------------------------------------------------------
(* Properties of the 2-D entry points *)

Is2D(c) == c.fn \in {"Fit2DPowerLorentzianCeres", "FitDiagonalPowerLorentzianCeres"}

\* the call was made with three equal-length sequences of at least 5 points
ValidCloud(c) ==
    /\ Len(c.x_coords) = Len(c.y_coords)
    /\ Len(c.x_coords) = Len(c.charge_values)
    /\ Len(c.x_coords) >= MinPoints

\* the 1-D fits of component `name` that have returned, as indices of the log
Returns(c, name) == {k \in 1..Len(c.returned) : c.returned[k][1] = name}

\* C13: the aggregate success flag is the logical AND of the component fits:
\* Fit2DPowerLorentzianCeres returns fit_successful = true iff both the X and
\* the Y fit were run and succeeded, FitDiagonalPowerLorentzianCeres iff all
\* four sub-fits were run and succeeded; a component that is not run counts
\* as failed.
AggregateIsConjunction ==
    \A t \in Threads :
        LET c == call[t]
        IN (Is2D(c) /\ c.pc = "done") =>
             /\ c.result.fit_successful
                  <=> \A name \in LineNames(c.fn) :
                         \E k \in Returns(c, name) : c.returned[k][2]
             /\ \A name \in LineNames(c.fn) :
                   /\ Cardinality(Returns(c, name)) <= 1
                   /\ Returns(c, name) = {} =>
                        /\ ~c.result.line[name].fit_successful
                        /\ ~c.result.fit_successful

\* a diagonal call returned success after its four sub-fits returned true
FourSubFitsSucceeded ==
    \E t \in Threads :
        /\ call[t].fn = "FitDiagonalPowerLorentzianCeres"
        /\ call[t].pc = "done"
        /\ call[t].result.fit_successful
        /\ Len(call[t].returned) = 4
        /\ \A k \in 1..4 : call[t].returned[k][2]

\* the fit of one axis: groups are the rows (columns), best the key the call
\* chose, estimate the center estimate across the axis
AxisChosen(t, name, groups, best, estimate) ==
    LET c       == call[t]
        ok      == {k \in DOMAIN groups : Len(groups[k]) >= MinPoints}
        planned == {k \in 1..Len(c.lines) : c.lines[k].name = name}
    IN IF ok = {}
       THEN /\ planned = {} /\ Returns(c, name) = {}
            /\ c.pc = "done" => (/\ ~c.result.line[name].fit_successful
                                 /\ ~c.result.fit_successful)
       ELSE /\ best \in ok
            /\ \A j \in ok : Abs(best - estimate) <= Abs(j - estimate)
            /\ Cardinality(planned) = 1
            /\ \A k \in planned :
                  /\ c.lines[k].x_vals = Column(SortPairs(groups[best]), 1)
                  /\ c.lines[k].y_vals = Column(SortPairs(groups[best]), 2)
                  /\ (c.pc = "fit" /\ c.line_idx = k) =>
                        /\ fit[t].x_vals = c.lines[k].x_vals
                        /\ fit[t].y_vals = c.lines[k].y_vals
            /\ c.pc = "done" => Cardinality(Returns(c, name)) = 1

\* C14: Fit2DPowerLorentzianCeres runs the X fit on exactly the row that has
\* at least 5 points and whose key minimises |key - center_y_estimate| among
\* the rows of at least 5 points, and the Y fit likewise on the column
\* nearest center_x_estimate; a row of fewer than 5 points is never selected,
\* and with no row (column) of at least 5 points no fit is run for that axis
\* and the axis is reported as failed.
CentralRowAndColumnFitted ==
    \A t \in Threads :
        LET c == call[t]
        IN (c.fn = "Fit2DPowerLorentzianCeres" /\ c.pc \in {"fit", "done"}
            /\ ValidCloud(c)) =>
             /\ AxisChosen(t, "x", c.rows_data, c.best_row_y, c.center_y_estimate)
             /\ AxisChosen(t, "y", c.cols_data, c.best_col_x, c.center_x_estimate)

\* the X fit was run on a row of 5 points although a row of fewer points is
\* nearer to the center estimate
ShortNearerRowPassedOver ==
    \E t \in Threads :
        LET c == call[t]
        IN /\ c.fn = "Fit2DPowerLorentzianCeres" /\ c.pc = "done"
           /\ Returns(c, "x") # {}
           /\ \E k \in DOMAIN c.rows_data :
                 /\ Len(c.rows_data[k]) < MinPoints
                 /\ Abs(k - c.center_y_estimate)
                      < Abs(c.best_row_y - c.center_y_estimate)

RECURSIVE AssignedKeys(_, _, _, _)
\* the keys of the groups the points are put in, `assigned` being the keys of
\* the points before: each point gets the lowest key, among those the earlier
\* points of positive charge were put in, within the tolerance of its
\* coordinate, else the coordinate itself
AssignedKeys(keys, charges, pixel_spacing, assigned) ==
    IF Len(assigned) = Len(charges) THEN assigned
    ELSE
    LET i       == Len(assigned) + 1
        earlier == {assigned[j] : j \in {m \in 1..Len(assigned) : charges[m] > 0}}
        near    == {k \in earlier : 10 * Fix(Abs(k - keys[i])) < pixel_spacing}
    IN AssignedKeys(keys, charges, pixel_spacing,
         Append(assigned, IF near = {} THEN keys[i]
                          ELSE CHOOSE k \in near : \A j \in near : k <= j))

AssignedKey(keys, charges, pixel_spacing) ==
    AssignedKeys(keys, charges, pixel_spacing, <<>>)

\* the groups that the assignment of the points to keys makes
AssignedGroups(keys, coords, charges, pixel_spacing) ==
    LET key      == AssignedKey(keys, charges, pixel_spacing)
        positive == {i \in 1..Len(charges) : charges[i] > 0}
        entries  == [i \in 1..Len(charges) |-> <<coords[i], charges[i]>>]
    IN [k \in {key[i] : i \in positive} |->
           Restrict(entries, {i \in positive : key[i] = k})]

\* the number of entries of all groups together
Entries(groups, n) ==
    Cardinality({p \in (DOMAIN groups) \X (1..n) : p[2] <= Len(groups[p[1]])})

\* the points of the call that carry a positive charge
PositivePoints(c) == {i \in 1..Len(c.charge_values) : c.charge_values[i] > 0}

\* C15: Fit2DPowerLorentzianCeres, processing the points in input order, adds
\* every point of charge > 0 to exactly one row and exactly one column: the
\* first existing row (column), in the order of the map, whose key is within
\* 10% of the pixel spacing of the point's y (x), else a new row (column)
\* keyed by that coordinate; it joins the first match even when another
\* existing row is nearer.  Points of charge <= 0 appear in no row and no
\* column and create no key.
PointsGroupedByFirstMatch ==
    \A t \in Threads :
        LET c == call[t]
        IN (c.fn = "Fit2DPowerLorentzianCeres" /\ c.grouped) =>
             /\ c.rows_data = AssignedGroups(c.y_coords, c.x_coords,
                                             c.charge_values, c.pixel_spacing)
             /\ c.cols_data = AssignedGroups(c.x_coords, c.y_coords,
                                             c.charge_values, c.pixel_spacing)
             /\ Entries(c.rows_data, Len(c.charge_values))
                  = Cardinality(PositivePoints(c))
             /\ Entries(c.cols_data, Len(c.charge_values))
                  = Cardinality(PositivePoints(c))
             /\ DOMAIN c.rows_data \subseteq {c.y_coords[i] : i \in PositivePoints(c)}
             /\ DOMAIN c.cols_data \subseteq {c.x_coords[i] : i \in PositivePoints(c)}

\* a point joined the row of the lowest key although the row created before
\* it is nearer, and a point of charge 0 was left out
JoinedFirstNotNearest ==
    \E t \in Threads :
        LET c   == call[t]
            key == AssignedKey(c.y_coords, c.charge_values, c.pixel_spacing)
        IN /\ c.fn = "Fit2DPowerLorentzianCeres" /\ c.grouped
           /\ \E i, j \in 1..Len(c.charge_values) :
                 /\ j < i /\ c.charge_values[i] > 0 /\ c.charge_values[j] > 0
                 /\ key[i] # key[j]
                 /\ key[j] \in DOMAIN c.rows_data
                 /\ Abs(key[j] - c.y_coords[i]) < Abs(key[i] - c.y_coords[i])
                 /\ \E e \in 1..Len(c.rows_data[key[i]]) :
                       c.rows_data[key[i]][e] = <<c.x_coords[i], 1>>
           /\ \E i \in 1..Len(c.charge_values) : c.charge_values[i] = 0


\* two coordinates within the grouping tolerance, 10% of the pixel spacing
WithinTolerance(a, b, pixel_spacing) == 10 * Fix(Abs(a - b)) < pixel_spacing

\* the coordinates of the points `points` fall into clusters: two points of
\* one cluster are within the tolerance, two of different clusters are not
WellSeparated(keys, points, pixel_spacing) ==
    \A i, j, k \in points :
        (/\ WithinTolerance(keys[i], keys[j], pixel_spacing)
         /\ WithinTolerance(keys[j], keys[k], pixel_spacing))
            => WithinTolerance(keys[i], keys[k], pixel_spacing)

Clusters(keys, points, pixel_spacing) ==
    {{j \in points : WithinTolerance(keys[i], keys[j], pixel_spacing)} : i \in points}

\* the groups are the clusters of the points of positive charge
GroupsAreClusters(groups, keys, coords, charges, pixel_spacing) ==
    LET points   == {i \in 1..Len(charges) : charges[i] > 0}
        entries  == [i \in 1..Len(charges) |-> <<coords[i], charges[i]>>]
        clusters == Clusters(keys, points, pixel_spacing)
    IN /\ Cardinality(DOMAIN groups) = Cardinality(clusters)
       /\ \A cl \in clusters :
             \E k \in DOMAIN groups :
                /\ k \in {keys[i] : i \in cl}
                /\ SortPairs(groups[k]) = SortPairs(Restrict(entries, cl))

\* C16: grouping is stable for well-separated grids: if the y-coordinates of
\* the positive-charge points fall into clusters such that two points of one
\* cluster differ by less than 10% of the pixel spacing and two points of
\* different clusters by at least that, then in whatever order the points
\* come the partition of the points into rows equals those clusters (the
\* same for the columns with x); without that separation two orders of the
\* same points can yield different partitions.  The generated clouds hold
\* their rows in every order.
GroupingStableWhenSeparated ==
    \A t \in Threads :
        LET c      == call[t]
            points == PositivePoints(c)
        IN (c.fn = "Fit2DPowerLorentzianCeres" /\ c.grouped) =>
             /\ WellSeparated(c.y_coords, points, c.pixel_spacing) =>
                    GroupsAreClusters(c.rows_data, c.y_coords, c.x_coords,
                                      c.charge_values, c.pixel_spacing)
             /\ WellSeparated(c.x_coords, points, c.pixel_spacing) =>
                    GroupsAreClusters(c.cols_data, c.x_coords, c.y_coords,
                                      c.charge_values, c.pixel_spacing)

\* the groups as a set of sorted lists of entries
Partition(groups) == {SortPairs(groups[k]) : k \in DOMAIN groups}

\* the rows of a call whose points are not well separated differ from the
\* rows the same points make in the reverse order
OrderChangesRows ==
    \E t \in Threads :
        LET c == call[t]
        IN /\ c.fn = "Fit2DPowerLorentzianCeres" /\ c.grouped
           /\ ~WellSeparated(c.y_coords, PositivePoints(c), c.pixel_spacing)
           /\ Partition(c.rows_data)
                # Partition(GroupPoints(Reversed(c.y_coords), Reversed(c.x_coords),
                                        Reversed(c.charge_values),
                                        c.pixel_spacing, 1, <<>>))

\* C18: Fit2DPowerLorentzianCeres and FitDiagonalPowerLorentzianCeres, when
\* the x, y and charge sequences do not all have the same length or have
\* fewer than 5 elements, return a default result whose fit_successful flag
\* is false, without grouping points, running the outlier remover or invoking
\* the 1-D orchestrator or the solver.
InvalidCloudReturnsDefault ==
    \A t \in Threads :
        LET c == call[t]
        IN (Is2D(c) /\ c.pc # "lock" /\ ~ValidCloud(c)) =>
             /\ c.pc = "done"
             /\ c.result = [fit_successful |-> FALSE,
                            line |-> [name \in LineNames(c.fn) |-> NoLineResult]]
             /\ ~c.grouped /\ c.rows_data = <<>> /\ c.cols_data = <<>>
             /\ ~c.remover_called
             /\ c.lines = <<>> /\ c.returned = <<>>
             /\ fit[t] = FitIdle

\* a diagonal call with filtering enabled and one charge fewer than points
\* has returned
MismatchedCloudReturned ==
    \E t \in Threads :
        /\ call[t].fn = "FitDiagonalPowerLorentzianCeres"
        /\ call[t].pc = "done"
        /\ call[t].enable_outlier_filtering
        /\ Len(call[t].x_coords) >= MinPoints
        /\ Len(call[t].charge_values) = Len(call[t].x_coords) - 1


-----------------------------------------------------------------------------
(* C21: the center bounds of every solve stay inside the estimate's range  *)

\* C21: in every solve of FitPowerLorentzianCeres, Stage 2 included, the
\* center bounds handed to the solver are contained in
\* [estimate - 3 * pixel_spacing, estimate + 3 * pixel_spacing], and the
\* center of every accepted fit lies in that interval
CenterBoundsWithinEstimateRange ==
    \A t \in Threads :
        LET f     == fit[t]
            lower == f.estimates.center - 3 * f.pixel_spacing
            upper == f.estimates.center + 3 * f.pixel_spacing
        IN /\ f.pc \in {"solve1", "solve2"} =>
                \A i \in 1..Len(f.solves) :
                    /\ lower <= f.solves[i].center_lower
                    /\ f.solves[i].center_upper <= upper
           /\ f.pc = "cov" =>
                /\ lower <= f.out.fit_center
                /\ f.out.fit_center <= upper


-----------------------------------------------------------------------------
(* C22: the Stage-1 problem is feasible *)

\* the profile has positive charges only
PositiveCharges == \A i \in 1..Len(y_vals) : y_vals[i] > 0

-----------------------------------------------------------------------------
(* C23: with a positive pixel spacing tier 2 is never selected *)

-----------------------------------------------------------------------------
(* C24: the stored degrees of freedom and the divisor of chi2_reduced *)

\* C24: for every successful axis or diagonal fit the degrees of freedom
\* stored in the result equal the divisor max(1, n - 5) of that fit's
\* chi2_reduced, n being the number of points of the dataset variant the
\* accepted attempt fitted, also when outlier filtering is enabled
StoredDofIsChiSquareDivisor ==
    \A t \in Threads :
        LET c == call[t]
        IN Is2D(c) =>
             \A k \in 1..Len(c.returned) :
                 LET name    == c.returned[k][1]
                     n       == c.returned[k][3]
                     divisor == IF n - 5 > 1 THEN n - 5 ELSE 1
                 IN c.returned[k][2] => c.result.line[name].dof = divisor


-----------------------------------------------------------------------------
(* C25: the mutex is always released and every caller returns *)

\* C25: a call of Fit2DPowerLorentzianCeres or of
\* FitDiagonalPowerLorentzianCeres holds the mutex exactly from its entry to
\* its return, on the early input-error returns as well, and nothing it calls
\* takes the mutex again; so every caller that waits for the mutex obtains it
\* and returns
MutexReleasedAndCallersReturn ==
    /\ [](\A t \in Threads :
            /\ Is2D(call[t]) => (mutex = t <=> call[t].pc = "fit")
            /\ ~Is2D(call[t]) => mutex # t)
    /\ \A t \in Threads :
          Is2D(call[t]) ~> (Is2D(call[t]) /\ call[t].pc = "done" /\ mutex # t)

\* a caller waits at its lock_guard while another caller, inside the solver,
\* holds the mutex
CallerWaitsForHolder ==
    \E t \in Threads, u \in Threads :
        /\ t # u
        /\ Is2D(call[t]) /\ call[t].pc = "lock"
        /\ Is2D(call[u]) /\ call[u].pc = "fit"
        /\ mutex = u
        /\ InSolver(u)


-----------------------------------------------------------------------------
(* C26: the number of solver invocations of a call is bounded *)

\* C26: one call of FitPowerLorentzianCeres makes at most 3 * 5 * 2 = 30
\* solves, at most 10 when outlier filtering is disabled, and at most 4
\* covariance computations, and tries no attempt twice;
\* Fit2DPowerLorentzianCeres calls it at most 2 times and
\* FitDiagonalPowerLorentzianCeres at most 4 times
SolverInvocationsBounded ==
    \A t \in Threads :
        LET f       == fit[t]
            c       == call[t]
            entered == IF c.pc = "fit" THEN 1 ELSE 0
        IN /\ f.n_solves <= 3 * NumConfigs * 2
           /\ ~f.enable_outlier_filtering => f.n_solves <= NumConfigs * 2
           /\ f.n_solves <= 2 * Len(f.tried)
           /\ f.n_cov <= NumCovConfigs
           /\ \A i \in 1..Len(f.tried), j \in 1..Len(f.tried) :
                 f.tried[i] = f.tried[j] => i = j
           /\ c.fn = "Fit2DPowerLorentzianCeres" =>
                 Len(c.returned) + entered <= 2
           /\ c.fn = "FitDiagonalPowerLorentzianCeres" =>
                 Len(c.returned) + entered <= 4

\* the second 1-D fit of a call of Fit2DPowerLorentzianCeres is inside its
\* thirtieth solve, the first having failed
ThirtiethSolveOfSecondFit ==
    \E t \in Threads :
        /\ call[t].fn = "Fit2DPowerLorentzianCeres"
        /\ call[t].pc = "fit"
        /\ call[t].returned # <<>>
        /\ ~call[t].returned[1][2]
        /\ fit[t].pc = "solve2"
        /\ fit[t].n_solves = 30


-----------------------------------------------------------------------------
(* C27: the result of RemovePowerLorentzianOutliers is consistent *)

RECURSIVE IsSubsequence(_, _, _, _)
\* s from index i on is a subsequence of t from index j on
IsSubsequence(s, t, i, j) ==
    IF i > Len(s) THEN TRUE
    ELSE IF j > Len(t) THEN FALSE
    ELSE IF s[i] = t[j] THEN IsSubsequence(s, t, i + 1, j + 1)
    ELSE IsSubsequence(s, t, i, j + 1)

\* C27: every result of RemovePowerLorentzianOutliers with success = true is
\* consistent: the three filtered sequences have one length and are an
\* order-preserving subsequence of the input triples, length +
\* outliers_removed = n, filtering_applied = false implies that the output is
\* the input and outliers_removed = 0, and filtering_applied = true implies
\* that at least one point was removed
RemovalResultConsistent ==
    (op = "remove" /\ removal.result.success) =>
        LET r   == removal.result
            n   == Len(y_vals)
            m   == Len(r.filtered_charge_values)
            in  == [i \in 1..n |->
                      <<removal.x_coords[i], removal.y_coords[i], y_vals[i]>>]
            out == [i \in 1..m |->
                      <<r.filtered_x_coords[i], r.filtered_y_coords[i],
                        r.filtered_charge_values[i]>>]
        IN /\ Len(r.filtered_x_coords) = m
           /\ Len(r.filtered_y_coords) = m
           /\ IsSubsequence(out, in, 1, 1)
           /\ m + r.outliers_removed = n
           /\ ~r.filtering_applied => (out = in /\ r.outliers_removed = 0)
           /\ r.filtering_applied => r.outliers_removed >= 1

=============================================================================
